---------------------------- MODULE Spec2Model ----------------------------
(***************************************************************************)
(* A model of git-mcp's documentation retrieval pipeline:                  *)
(*   - fetchDocumentation / searchRepositoryDocumentation (commonTools),   *)
(*   - the robots.txt gate (robotsTxt) and the KV caches (cache),          *)
(*   - searchGitHubRepo / getRepoBranch (github), fetchFileFromR2 (r2),    *)
(*   - githubApiRequest and its rate-limit handling (githubClient).        *)
(* Every external capability (HTTP fetch, KV, R2, queue, AutoRAG,          *)
(* html-to-md) is an environment choice drawn with \E in the action that   *)
(* awaits it; a rejected promise is one of the outcomes.                   *)
(***************************************************************************)
EXTENDS Integers, Sequences, FiniteSets, TLC

\* ------------------------------------------------------------------ bounds
\* Number of tool requests served in one behaviour.
MaxRequests == 2
\* Number of ctx.waitUntil tasks that may still be running when a request starts.
MaxPending == 1

\* ---------------------------------------------------------------- values
NULL == "NULL"
EMPTY == ""
THROW == "THROW"

\* JavaScript truthiness of a string | null value.
Truthy(v) == v # NULL /\ v # EMPTY

NotFoundText == "No documentation found."
RobotsText == "Access to this GitHub Pages site is restricted by robots.txt. GitMCP respects robots.txt directives."
RestrictionFile == "robots.txt restriction"
LandingFile == "landing page (index.html, converted to Markdown)"

Owners == {"o"}
Repos == {"r"}

\* RepoData values getRepoData and the tool callbacks can hand over.
Identities ==
    [owner : Owners, repo : Repos \cup {NULL}, urlType : {"subdomain", "github"}]
    \cup {[owner |-> NULL, repo |-> NULL, urlType |-> "unknown"]}

possibleLocations == <<"docs/docs/llms.txt", "llms.txt", "docs/llms.txt">>

Range(s) == {s[i] : i \in DOMAIN s}

constructGithubUrl(owner, repo, branch, path) ==
    "https://raw.githubusercontent.com/" \o owner \o "/" \o repo \o "/" \o branch \o "/" \o path

\* The body served at a URL, when it is served and is not empty.
TextAt(url) == "text of " \o url

\* The text of a repository file, when it exists and is not empty (the same on
\* every branch that has it).
FileText(owner, repo, path) == "text of " \o owner \o "/" \o repo \o "/" \o path

\* ------------------------------------------------------------ cache keys
getFetchDocCacheKey(owner, repo) == "fetch_doc:" \o owner \o ":" \o repo
getRepoFilePathCacheKey(owner, repo) == "repo:" \o owner \o ":" \o repo
getRobotsTxtCacheKey(domain) == "robotstxt:" \o domain

Domains == {o \o ".github.io" : o \in Owners} \cup {"example.com"}

CacheKeys ==
    {getFetchDocCacheKey(o, r) : o \in Owners, r \in Repos}
    \cup {getRepoFilePathCacheKey(o, r) : o \in Owners, r \in Repos}
    \cup {getRobotsTxtCacheKey(d) : d \in Domains}

VARIABLES
    env,        \* the deployment's bindings: whether DOCS_BUCKET is bound
    kv,         \* CACHE_KV: cache key -> stored value, or NoEntry
    req,        \* the request being served: the tool and its RepoData or URL
    pc,         \* the await the request is suspended at
    loc,        \* fetchDocumentation's locals
    calls,      \* what the request has invoked so far, in order
    ret,        \* what the tool hands its caller (or that it threw), until the reply
    detached,   \* ctx.waitUntil tasks not yet run
    queue,      \* how many messages MY_QUEUE has accepted
    nreq,       \* requests started
    api,        \* githubApiRequest: one call with its retries, and apiRateLimit
    vec         \* the Vectorize index: the vectors it holds

vars == <<env, kv, req, pc, loc, calls, ret, detached, queue, nreq, api, vec>>


\* --------------------------------------------------------------- KV cache
NoEntry == [kind |-> "none"]

\* getFromCache: the stored value when CACHE_KV is bound and the read succeeds
\* (readOk); null otherwise.
getFromCache(key, readOk) ==
    IF readOk THEN kv[key] ELSE NoEntry

\* setInCache: the put when CACHE_KV is bound and the write succeeds (writeOk);
\* a no-op otherwise.
setInCache(store, key, value, writeOk) ==
    IF writeOk THEN [store EXCEPT ![key] = value] ELSE store

\* -------------------------------------------------------------- robots.txt
\* A URL path is the sequence of its pieces: "/r/llms.txt" is
\* <<"/", "r", "/", "llms.txt">>; startsWith is the prefix order on pieces.
RECURSIVE Join(_)
Join(p) == IF p = <<>> THEN "" ELSE Head(p) \o Join(Tail(p))

startsWith(p, q) == Len(q) <= Len(p) /\ SubSeq(p, 1, Len(q)) = q

Url(host, path) == [host |-> host, path |-> path]
UrlStr(u) == "https://" \o u.host \o Join(u.path)

RootPath == <<"/">>
BasePath(repo) == IF repo # NULL THEN <<"/", repo, "/">> ELSE <<"/">>

RobotsRule(ua, allow, disallow) ==
    [userAgent |-> ua, allow |-> allow, disallow |-> disallow]

\* Parsed robots.txt files (RobotsRule[]) a site may serve: a GitHub Pages site
\* one of the first four, any other site one of the eight.
RobotsFiles(domain) ==
    LET base == BasePath("r")
        llms == base \o <<"llms.txt">>
        readme == base \o <<"README.md">>
        pages == { <<>>,
                   <<RobotsRule("*", <<llms, readme>>, <<base>>)>>,
                   <<RobotsRule("*", <<>>, <<llms>>)>>,
                   <<RobotsRule("bot", <<>>, <<RootPath>>), RobotsRule("*", <<>>, <<readme>>)>> }
    IN  IF domain # "example.com" THEN pages
        ELSE pages \cup
             { <<RobotsRule("*", <<>>, <<>>)>>,
               <<RobotsRule("*", <<>>, <<RootPath>>)>>,
               <<RobotsRule("bot", <<>>, <<RootPath>>)>>,
               <<RobotsRule("*", <<base>>, <<RootPath>>)>> }

\* rules.find(rule => rule.userAgent === "*"), else rules[0], else nothing.
applicableRules(rules) ==
    LET stars == {i \in DOMAIN rules : rules[i].userAgent = "*"}
    IN  IF stars # {}
        THEN <<rules[CHOOSE i \in stars : \A j \in stars : i <= j]>>
        ELSE IF Len(rules) > 0 THEN <<rules[1]>> ELSE <<>>

isPathAllowed_ExactMatch(rules, path0) ==
    LET app == applicableRules(rules)
    IN  IF app = <<>> \/ (Len(app[1].disallow) = 0 /\ Len(app[1].allow) = 0)
        THEN TRUE
        ELSE IF \E a \in Range(app[1].allow) : startsWith(path0, a)
        THEN TRUE
        ELSE ~(\E d \in Range(app[1].disallow) : d = path0)

\* isPathAllowed: allowed without an applicable rule or without directives;
\* an Allow prefix wins over every Disallow prefix.
isPathAllowed(rules, path0) ==
    LET path == IF path0 # <<>> /\ Head(path0) = "/" THEN path0 ELSE <<"/">> \o path0
        app == applicableRules(rules)
    IN  IF app = <<>> \/ (Len(app[1].disallow) = 0 /\ Len(app[1].allow) = 0)
        THEN TRUE
        ELSE IF \E a \in Range(app[1].allow) : startsWith(path, a)
        THEN TRUE
        ELSE IF \E d \in Range(app[1].disallow) : d = <<"/">> \/ startsWith(path, d)
        THEN FALSE
        ELSE TRUE

\* What fetch(robotsTxtUrl) can do: reject, answer not-ok, or serve a file.
RobotsResponses(domain) ==
    {[kind |-> "throw"], [kind |-> "notok"]}
    \cup {[kind |-> "rules", rules |-> f] : f \in RobotsFiles(domain)}

\* checkRobotsTxt: the verdict, the store afterwards, and the ruleset the
\* verdict was taken from (cachedRules, [] or rules; none when robots.txt could
\* not be fetched).
checkRobotsTxt(domain, path, readOk, resp, writeOk) ==
    LET key == getRobotsTxtCacheKey(domain)
        cached == getFromCache(key, readOk)
        none == [kind |-> "rules", rules |-> <<>>]
        rules == [kind |-> "rules", rules |-> resp.rules]
    IN  IF cached.kind = "rules"
        THEN [allowed |-> isPathAllowed(cached.rules, path), kv |-> kv, rules |-> cached]
        ELSE IF resp.kind = "throw"
        THEN [allowed |-> TRUE, kv |-> kv, rules |-> NoEntry]
        ELSE IF resp.kind = "notok"
        THEN [allowed |-> TRUE, kv |-> setInCache(kv, key, none, writeOk), rules |-> none]
        ELSE [allowed |-> isPathAllowed(resp.rules, path),
              kv |-> setInCache(kv, key, rules, writeOk), rules |-> rules]

\* A string that `new URL` rejects.
InvalidUrl == Url(NULL, <<>>)

\* What fetchUrlContent({url, format: "text"}) can return: null (not ok, or a
\* failed fetch), an empty body, or the text served at the URL.
UrlBodies(u) == {NULL, EMPTY, TextAt(UrlStr(u))}

\* fetchFileWithRobotsTxtCheck. `body` is what the content fetch would return;
\* it is issued only when the path is allowed. A malformed URL ends in the
\* catch clause before anything is checked or fetched.
fetchFileWithRobotsTxtCheck(u, readOk, resp, writeOk, body) ==
    LET chk == checkRobotsTxt(u.host, u.path, readOk, resp, writeOk)
    IN  IF u = InvalidUrl
        THEN [content |-> NULL, blockedByRobots |-> FALSE, kv |-> kv, calls |-> <<>>,
              rules |-> NoEntry]
        ELSE IF ~chk.allowed
        THEN [content |-> NULL, blockedByRobots |-> TRUE, kv |-> chk.kv,
              calls |-> <<"robots-check " \o UrlStr(u)>>, rules |-> chk.rules]
        ELSE [content |-> body, blockedByRobots |-> FALSE, kv |-> chk.kv,
              calls |-> <<"robots-check " \o UrlStr(u), "GET " \o UrlStr(u)>>,
              rules |-> chk.rules]


\* ------------------------------------------------------------ GitHub access
\* What githubApiRequest hands back for a file or API URL, by what the caller
\* can see of it: null (retries exhausted), a not-ok response, or an ok response
\* whose body is empty, is the served text, or fails while being read.
Responses == {"null", "notok", "ok-empty", "ok", "ok-bodyerr"}
HeadResponses == {"null", "notok", "ok"}

\* fetchRawFile / fetchFileFromGitHub: null unless the response is ok, else
\* response.text(), which rejects when the body cannot be read.
fetchRawFile(owner, repo, branch, path, r) ==
    IF r \in {"null", "notok"} THEN NULL
    ELSE IF r = "ok-bodyerr" THEN THROW
    ELSE IF r = "ok-empty" THEN EMPTY
    ELSE FileText(owner, repo, path)

\* GET /repos/{owner}/{repo}: as Responses, an ok body being the repository JSON
\* with or without a default_branch.
RepoResponses == {"null", "notok", "ok-bodyerr", "ok-nobranch", "ok-dev"}

\* getRepoBranch without its catch: the error leaves the function.
getRepoBranch_NoCatch(apiR, mainR, masterR) ==
    IF apiR = "ok-bodyerr" THEN THROW
    ELSE IF apiR = "ok-dev" THEN "dev"
    ELSE IF mainR = "ok" THEN "main"
    ELSE IF masterR = "ok" THEN "master"
    ELSE THROW

getRepoBranch(apiR, mainR, masterR) ==
    IF apiR = "ok-bodyerr" THEN "main"
    ELSE IF apiR = "ok-dev" THEN "dev"
    ELSE IF mainR = "ok" THEN "main"
    ELSE IF masterR = "ok" THEN "master"
    ELSE "main"

\* The first hit of the code search for a file name (data.items[0].path), and the
\* last piece of each path (path.split("/").pop()).
SearchHit(filename) == IF filename = "llms.txt" THEN "pkg/llms.txt" ELSE "README.md"
Basename(path) == IF path = "pkg/llms.txt" THEN "llms.txt" ELSE path

\* searchFileByName: null on a failed or not-ok request; the JSON otherwise.
SearchResponses == {"null", "notok", "ok-bodyerr", "ok-zero", "ok-items"}

\* searchGitHubRepo: the file found (content, path) or null, and the
\* cacheFilePath task it hands to ctx.waitUntil.
searchGitHubRepo(owner, repo, filename, branch, readOk, searchR, rawR) ==
    LET cachedFile == getFromCache(getRepoFilePathCacheKey(owner, repo), readOk)
        cachedPath == IF cachedFile.kind = "path" THEN cachedFile.path ELSE ""
        searched == cachedPath = ""
        hit == searched /\ searchR = "ok-items"
        filePath == IF ~searched THEN cachedPath ELSE SearchHit(filename)
        raw == fetchRawFile(owner, repo, branch, filePath, rawR)
        content == IF raw = THROW THEN NULL ELSE raw
    IN  IF searched /\ ~hit
        THEN [found |-> FALSE, content |-> NULL, path |-> "", tasks |-> {}]
        ELSE IF Truthy(content)
        THEN [found |-> TRUE, content |-> content, path |-> filePath,
              tasks |-> {[task |-> "cacheFilePath",
                          key |-> getRepoFilePathCacheKey(owner, repo),
                          value |-> [kind |-> "path", path |-> filePath, branch |-> branch]]}]
        ELSE [found |-> FALSE, content |-> NULL, path |-> "", tasks |-> {}]

\* fetchFileFromR2: the object's text, or null (no binding, no object, an error).
R2Responses == {"null", "throw", "obj-empty", "obj"}

fetchFileFromR2(owner, repo, filename, r) ==
    IF owner # NULL /\ repo # NULL /\ env.DOCS_BUCKET
    THEN IF r = "obj" THEN "r2 text of " \o owner \o "/" \o repo \o "/" \o filename
         ELSE IF r = "obj-empty" THEN EMPTY
         ELSE NULL
    ELSE NULL


\* ------------------------------------------------------- fetchDocumentation
Pending == "pending"

InitLoc ==
    [fileUsed |-> "unknown", content |-> NULL, docsPath |-> "", docsBranch |-> "",
     blockedByRobots |-> FALSE,
     results |-> [i \in DOMAIN possibleLocations |-> Pending],
     completed |-> <<>>, tasks |-> {}, cachedResult |-> [kind |-> "none"],
     result |-> [kind |-> "none"]]

NoRet == [kind |-> "none"]
Thrown == [kind |-> "throw"]

HasRepo == req.owner # NULL /\ req.repo # NULL

\* The subdomain branch's URLs on {owner}.github.io.
baseURL == Url(req.owner \o ".github.io", BasePath(req.repo))
llmsURL == Url(baseURL.host, baseURL.path \o <<"llms.txt">>)
readmeURL == Url(baseURL.host, baseURL.path \o <<"README.md">>)

\* html-to-md on a fetched page: it throws, or gives Markdown (possibly empty).
htmlToMd(html) == {THROW, EMPTY, "markdown of " \o html}

\* searchRepositoryDocumentationNaive around fetchDocumentation's outcome.
NaiveResult(r) ==
    IF r.kind = "throw"
    THEN [kind |-> "search", via |-> "error", doc |-> NULL]
    ELSE [kind |-> "search", via |-> "fallback", doc |-> r.text]

\* fetchDocumentation ends with outcome r (kept in loc.result): it goes to the
\* tool's caller, through searchRepositoryDocumentationNaive for the search tool.
Return(l, r) ==
    /\ loc' = [l EXCEPT !.result = r]
    /\ ret' = IF req.tool = "search" THEN NaiveResult(r) ELSE r
    /\ pc' = "return"

\* The tail of fetchDocumentation with the send awaited outside any try/catch.
Finish_AwaitEnqueue(l, tasks) ==
    LET enq == IF HasRepo
               THEN {[task |-> "enqueue", key |-> "",
                      value |-> [owner |-> req.owner, repo |-> req.repo]]}
               ELSE {}
        result == [kind |-> "value", fileUsed |-> l.fileUsed,
                   text |-> IF Truthy(l.content) THEN l.content ELSE NotFoundText,
                   cached |-> FALSE, origin |-> req.urlType]
        cw == IF HasRepo /\ Truthy(l.content)
              THEN {[task |-> "cacheFetchDocResult",
                     key |-> getFetchDocCacheKey(req.owner, req.repo),
                     value |-> [kind |-> "doc", fileUsed |-> result.fileUsed,
                                text |-> result.text, origin |-> req.urlType]]}
              ELSE {}
    IN  \E sendOk \in BOOLEAN :
           IF sendOk \/ ~HasRepo
           THEN Return([l EXCEPT !.tasks = tasks \cup enq \cup cw], result)
           ELSE Return([l EXCEPT !.tasks = tasks \cup enq], Thrown)

\* The tail of fetchDocumentation: enqueue, the not-found text, the cache write.
Finish(l, tasks) ==
    LET enq == IF HasRepo
               THEN {[task |-> "enqueue", key |-> "",
                      value |-> [owner |-> req.owner, repo |-> req.repo]]}
               ELSE {}
        result == [kind |-> "value", fileUsed |-> l.fileUsed,
                   text |-> IF Truthy(l.content) THEN l.content ELSE NotFoundText,
                   cached |-> FALSE, origin |-> req.urlType]
        cw == IF HasRepo /\ Truthy(l.content)
              THEN {[task |-> "cacheFetchDocResult",
                     key |-> getFetchDocCacheKey(req.owner, req.repo),
                     value |-> [kind |-> "doc", fileUsed |-> result.fileUsed,
                                text |-> result.text, origin |-> req.urlType]]}
              ELSE {}
    IN  Return([l EXCEPT !.tasks = tasks \cup enq \cup cw], result)

\* The step after the cache lookup missed: the branch urlType selects.
Dispatch ==
    IF req.urlType = "subdomain"
    THEN /\ pc' = "sub_llms"
         /\ UNCHANGED <<loc, ret>>
    ELSE IF req.urlType = "github" /\ HasRepo
    THEN /\ pc' = "gh_branch"
         /\ UNCHANGED <<loc, ret>>
    ELSE Finish(loc, {})

CachedResult_DropFileUsed(cachedResult) ==
    [kind |-> "value", fileUsed |-> "unknown", text |-> cachedResult.text,
     cached |-> TRUE, origin |-> cachedResult.origin]

\* getCachedFetchDocResult's value handed back as fetchDocumentation's result
\* (lines 42-45). `cached` and `origin` are history: that the result came from
\* the cache, and the urlType of the resolution that produced it.
CachedResult(cachedResult) ==
    [kind |-> "value", fileUsed |-> cachedResult.fileUsed, text |-> cachedResult.text,
     cached |-> TRUE, origin |-> cachedResult.origin]

\* fetchDocumentation's cache lookup (lines 37-46).
CacheLookup ==
    /\ pc = "cache"
    /\ \E readOk \in BOOLEAN :
         LET cachedResult == IF HasRepo
                             THEN getFromCache(getFetchDocCacheKey(req.owner, req.repo), readOk)
                             ELSE NoEntry
         IN  IF cachedResult.kind = "doc"
             THEN Return([loc EXCEPT !.cachedResult = cachedResult],
                         CachedResult(cachedResult))
             ELSE Dispatch
    /\ UNCHANGED <<env, kv, req, calls, detached, queue, nreq, api, vec>>

\* Lines 113-118: a blocked step turns the result into the restriction message.
RobotsOverride(l) ==
    IF l.blockedByRobots
    THEN [l EXCEPT !.content = RobotsText, !.fileUsed = RestrictionFile]
    ELSE l

AfterLlms(l, r) ==
    IF r.blockedByRobots THEN [l EXCEPT !.blockedByRobots = TRUE]
    ELSE IF Truthy(r.content) THEN [l EXCEPT !.content = r.content, !.fileUsed = "llms.txt"]
    ELSE l

TryIndex_IgnoreBlocked(r) == ~Truthy(r.content)

\* Line 74: the landing page is tried when llms.txt was neither blocked nor found.
TryIndex(r) == ~r.blockedByRobots /\ ~Truthy(r.content)

AfterIndex(l, r, md) ==
    IF r.blockedByRobots THEN [l EXCEPT !.blockedByRobots = TRUE]
    ELSE IF Truthy(r.content) /\ md # THROW
    THEN [l EXCEPT !.content = md, !.fileUsed = LandingFile]
    ELSE l

\* Line 97: README.md is tried when there is no content and nothing was blocked.
TryReadme(l) == ~Truthy(l.content) /\ ~l.blockedByRobots

AfterReadme(l, r) ==
    IF r.blockedByRobots THEN [l EXCEPT !.blockedByRobots = TRUE]
    ELSE IF Truthy(r.content) THEN [l EXCEPT !.content = r.content, !.fileUsed = "README.md"]
    ELSE l

SubLlms ==
    /\ pc = "sub_llms"
    /\ \E readOk \in BOOLEAN, resp \in RobotsResponses(baseURL.host), writeOk \in BOOLEAN,
          body \in UrlBodies(llmsURL) :
         LET r == fetchFileWithRobotsTxtCheck(llmsURL, readOk, resp, writeOk, body)
             l == AfterLlms(loc, r)
         IN  /\ kv' = r.kv
             /\ calls' = calls \o r.calls
             /\ IF TryIndex(r)
                THEN /\ loc' = l
                     /\ pc' = "sub_index"
                     /\ UNCHANGED ret
                ELSE Finish(RobotsOverride(l), {})
    /\ UNCHANGED <<env, req, detached, queue, nreq, api, vec>>

SubIndex ==
    /\ pc = "sub_index"
    /\ \E readOk \in BOOLEAN, resp \in RobotsResponses(baseURL.host), writeOk \in BOOLEAN,
          body \in UrlBodies(baseURL) :
         LET r == fetchFileWithRobotsTxtCheck(baseURL, readOk, resp, writeOk, body)
         IN  \E md \in htmlToMd(body) :
               LET l == AfterIndex(loc, r, md)
               IN  /\ kv' = r.kv
                   /\ calls' = calls \o r.calls
                   /\ IF TryReadme(l)
                      THEN /\ loc' = l
                           /\ pc' = "sub_readme"
                           /\ UNCHANGED ret
                      ELSE Finish(RobotsOverride(l), {})
    /\ UNCHANGED <<env, req, detached, queue, nreq, api, vec>>

SubReadme ==
    /\ pc = "sub_readme"
    /\ \E readOk \in BOOLEAN, resp \in RobotsResponses(baseURL.host), writeOk \in BOOLEAN,
          body \in UrlBodies(readmeURL) :
         LET r == fetchFileWithRobotsTxtCheck(readmeURL, readOk, resp, writeOk, body)
         IN  /\ kv' = r.kv
             /\ calls' = calls \o r.calls
             /\ Finish(RobotsOverride(AfterReadme(loc, r)), {})
    /\ UNCHANGED <<env, req, detached, queue, nreq, api, vec>>


\* ---- the github branch (lines 119-249)
GhBranch ==
    /\ pc = "gh_branch"
    /\ \E apiR \in RepoResponses, mainR \in HeadResponses, masterR \in HeadResponses :
         loc' = [loc EXCEPT !.docsBranch = getRepoBranch(apiR, mainR, masterR)]
    /\ pc' = "gh_static"
    /\ calls' = calls \o <<"getRepoBranch", "static paths">>
    /\ UNCHANGED <<env, kv, req, ret, detached, queue, nreq, api, vec>>

StaticUrl(l, i) == constructGithubUrl(req.owner, req.repo, l.docsBranch, possibleLocations[i])

\* Lines 154-170: the first location, in declared order, whose fetch gave
\* something other than null; 0 when there is none. The order the fetches
\* completed in is not consulted.
selectStatic(results, completed) ==
    LET found == {i \in DOMAIN possibleLocations : results[i] # NULL}
    IN  IF found = {} THEN 0 ELSE CHOOSE i \in found : \A j \in found : i <= j

AfterStatic(l) ==
    LET i == selectStatic(l.results, l.completed)
    IN  IF i = 0 THEN l
        ELSE [l EXCEPT !.content = l.results[i], !.fileUsed = "llms.txt",
                       !.docsPath = StaticUrl(l, i)]

\* Lines 172, 193 and 205: the next strategy runs only while there is no content.
TrySearch(l) == ~Truthy(l.content)
TryR2_Always(l) == TRUE
TryR2(l) == ~Truthy(l.content)
TryReadmeSearch(l) == ~Truthy(l.content)

\* One of the three parallel fetches completes; Promise.all resolves with the
\* last of them and rejects with the first that rejects.
StaticComplete ==
    /\ pc = "gh_static"
    /\ \E i \in DOMAIN possibleLocations, r \in Responses :
         /\ loc.results[i] = Pending
         /\ LET v == fetchRawFile(req.owner, req.repo, loc.docsBranch, possibleLocations[i], r)
                l1 == [loc EXCEPT !.results[i] = v, !.completed = Append(@, i)]
                l2 == AfterStatic(l1)
            IN  /\ IF v = THROW
                   THEN Return(l1, Thrown)
                   ELSE IF \E j \in DOMAIN possibleLocations : l1.results[j] = Pending
                   THEN /\ loc' = l1
                        /\ UNCHANGED <<pc, ret>>
                   ELSE IF ~TrySearch(l2)
                   THEN Finish(l2, {})
                   ELSE /\ loc' = [l2 EXCEPT !.completed = <<>>]
                        /\ pc' = "gh_search"
                        /\ UNCHANGED ret
    /\ UNCHANGED <<env, kv, req, calls, detached, queue, nreq, api, vec>>

\* Lines 172-191: the filename search for llms.txt.
AfterSearch(l, res) ==
    IF res.found
    THEN [l EXCEPT !.content = res.content, !.docsPath = res.path, !.fileUsed = "llms.txt"]
    ELSE l

GhSearch ==
    /\ pc = "gh_search"
    /\ \E readOk \in BOOLEAN, searchR \in SearchResponses, rawR \in Responses :
         LET res == searchGitHubRepo(req.owner, req.repo, "llms.txt", loc.docsBranch,
                                     readOk, searchR, rawR)
             l == AfterSearch(loc, res)
         IN  /\ calls' = Append(calls, "searchGitHubRepo llms.txt")
             /\ IF ~TryR2(l)
                THEN Finish(l, res.tasks)
                ELSE /\ loc' = l
                     /\ pc' = "gh_r2"
                     /\ UNCHANGED ret
    /\ UNCHANGED <<env, kv, req, detached, queue, nreq, api, vec>>

\* Lines 193-203: the pre-generated copy in the object store.
AfterR2(l, content) ==
    IF Truthy(content)
    THEN [l EXCEPT !.content = content, !.fileUsed = "llms.txt (generated)"]
    ELSE [l EXCEPT !.content = content]

GhR2 ==
    /\ pc = "gh_r2"
    /\ \E r \in R2Responses :
         LET l == AfterR2(loc, fetchFileFromR2(req.owner, req.repo, "llms.txt", r))
         IN  /\ calls' = Append(calls, "fetchFileFromR2")
             /\ IF ~TryReadmeSearch(l)
                THEN Finish(l, {})
                ELSE /\ loc' = l
                     /\ pc' = "gh_readme"
                     /\ UNCHANGED ret
    /\ UNCHANGED <<env, kv, req, detached, queue, nreq, api, vec>>

\* Lines 205-244: the README search.
AfterReadmeSearch(l, res) ==
    IF res.found
    THEN [l EXCEPT !.content = res.content, !.fileUsed = Basename(res.path),
                   !.docsPath = constructGithubUrl(req.owner, req.repo, l.docsBranch, res.path)]
    ELSE l

GhReadme ==
    /\ pc = "gh_readme"
    /\ \E readOk \in BOOLEAN, searchR \in SearchResponses, rawR \in Responses :
         LET res == searchGitHubRepo(req.owner, req.repo, "README+path:/", loc.docsBranch,
                                     readOk, searchR, rawR)
         IN  /\ calls' = Append(calls, "searchGitHubRepo README")
             /\ Finish(AfterReadmeSearch(loc, res), res.tasks)
    /\ UNCHANGED <<env, kv, req, detached, queue, nreq, api, vec>>


\* ------------------------------------------ searchRepositoryDocumentation
\* Lines 356-362: the DOCS_BUCKET check and the head() of the pre-generated copy.
SearchHead ==
    /\ pc = "srch_head"
    /\ IF ~env.DOCS_BUCKET
       THEN /\ ret' = Thrown
            /\ pc' = "return"
       ELSE \E h \in {"throw", "absent", "present"} :
              IF h = "throw"
              THEN /\ ret' = Thrown
                   /\ pc' = "return"
              ELSE /\ pc' = IF h = "present" THEN "srch_autorag" ELSE "cache"
                   /\ UNCHANGED ret
    /\ UNCHANGED <<env, kv, req, loc, calls, detached, queue, nreq, api, vec>>

\* Lines 363-383 with searchRepositoryDocumentationAutoRag: its answer is
\* returned unless it starts with "No results found"; an error is swallowed.
AutoRagAnswers == {"throw", "no-data", "data"}

SearchAutoRag ==
    /\ pc = "srch_autorag"
    /\ IF ~HasRepo
       THEN /\ ret' = [kind |-> "search", via |-> "autorag", doc |-> "No repository data provided"]
            /\ pc' = "return"
       ELSE \E a \in AutoRagAnswers :
              IF a = "data"
              THEN /\ ret' = [kind |-> "search", via |-> "autorag", doc |-> "autorag sources"]
                   /\ pc' = "return"
              ELSE /\ pc' = "cache"
                   /\ UNCHANGED ret
    /\ UNCHANGED <<env, kv, req, loc, calls, detached, queue, nreq, api, vec>>

\* ------------------------------------------------------------- requests
Tools == {"fetch", "search"}

StartRequest ==
    /\ pc = "idle"
    /\ nreq < MaxRequests
    /\ Cardinality(detached) <= MaxPending
    /\ \E tool \in Tools, id \in Identities :
         /\ req' = [tool |-> tool, owner |-> id.owner, repo |-> id.repo, urlType |-> id.urlType]
         /\ pc' = IF tool = "search" THEN "srch_head" ELSE "cache"
    /\ nreq' = nreq + 1
    /\ UNCHANGED <<env, kv, loc, calls, ret, detached, queue, api, vec>>

\* The caller receives the outcome; the locals are gone, and the tasks handed to
\* ctx.waitUntil run on from here.
Reply ==
    /\ pc = "return"
    /\ pc' = "idle"
    /\ detached' = detached \cup loc.tasks
    /\ loc' = InitLoc
    /\ calls' = <<>>
    /\ ret' = NoRet
    /\ UNCHANGED <<env, kv, req, queue, nreq, api, vec>>

\* --------------------------------------------- ctx.waitUntil tasks and TTLs
\* enqueueDocumentationProcessing: the message is sent when MY_QUEUE is bound
\* and the send succeeds (sendOk); every failure is swallowed.
Enqueue ==
    /\ \E t \in detached, sendOk \in BOOLEAN :
         /\ t.task = "enqueue"
         /\ detached' = detached \ {t}
         /\ queue' = IF sendOk THEN queue + 1 ELSE queue
    /\ UNCHANGED <<env, kv, req, pc, loc, calls, ret, nreq, api, vec>>

\* cacheFetchDocResult and cacheFilePath: a KV put that may fail silently.
CacheWrite ==
    /\ \E t \in detached, writeOk \in BOOLEAN :
         /\ t.task \in {"cacheFetchDocResult", "cacheFilePath"}
         /\ detached' = detached \ {t}
         /\ kv' = setInCache(kv, t.key, t.value, writeOk)
    /\ UNCHANGED <<env, req, pc, loc, calls, ret, queue, nreq, api, vec>>

\* A cache entry reaches its TTL.
Expire ==
    /\ \E k \in CacheKeys :
         /\ kv[k] # NoEntry
         /\ kv' = [kv EXCEPT ![k] = NoEntry]
    /\ UNCHANGED <<env, req, pc, loc, calls, ret, detached, queue, nreq, api, vec>>

NoRequest == [tool |-> "none", owner |-> NULL, repo |-> NULL, urlType |-> "unknown"]

\* githubClient at module load: apiRateLimit (lines 62-66) and no call running.
\* Times are in ms; untilReset is apiRateLimit.resetTime - Date.now(), kept at 0
\* once the reset time has passed, and hasReset says resetTime is not null.
ApiIdle ==
    [pc |-> "idle", retryCount |-> 0, useAuth |-> TRUE, remaining |-> 5000,
     hasReset |-> FALSE, untilReset |-> 0, lastWait |-> 0, retries |-> 0, ncalls |-> 0,
     response |-> "none"]

Init ==
    /\ env \in [DOCS_BUCKET : BOOLEAN]
    /\ kv = [k \in CacheKeys |-> NoEntry]
    /\ req = NoRequest
    /\ pc = "idle"
    /\ loc = InitLoc
    /\ calls = <<>>
    /\ ret = NoRet
    /\ detached = {}
    /\ queue = 0
    /\ nreq = 0
    /\ api = ApiIdle
    /\ vec = {}

Next ==
    \/ StartRequest
    \/ SearchHead
    \/ SearchAutoRag
    \/ CacheLookup
    \/ SubLlms
    \/ SubIndex
    \/ SubReadme
    \/ GhBranch
    \/ StaticComplete
    \/ GhSearch
    \/ GhR2
    \/ GhReadme
    \/ Reply
    \/ Enqueue
    \/ CacheWrite
    \/ Expire

Spec == Init /\ [][Next]_vars

\* ------------------------------------------------------- githubApiRequest
DEFAULT_DELAY == 1000
MAX_RETRIES == 3
\* Number of top-level githubApiRequest calls in one behaviour.
MaxApiCalls == 2

Max(a, b) == IF a >= b THEN a ELSE b
Min(a, b) == IF a <= b THEN a ELSE b

\* Time passes: w ms later the reset is w ms nearer.
Elapse(a, w) == [a EXCEPT !.untilReset = Max(0, @ - w)]

\* The wait respectRateLimits performs before a request (lines 96-114).
respectRateLimits(a) ==
    IF a.remaining < 5 /\ a.hasReset
    THEN IF a.untilReset > 0 THEN Min(a.untilReset + 1000, 60000) ELSE 0
    ELSE DEFAULT_DELAY

\* The wait before the retry of a rate-limited request (lines 201-206).
rateLimitBackoff(a) ==
    IF a.hasReset THEN Max(1000, a.untilReset + 1000) ELSE 60000

\* x-ratelimit-remaining and x-ratelimit-reset of a response; -1: no header.
RemainingHeaders == {-1, 0, 4999}
ResetHeaders == {-1, 0, 30000, 3600000}

\* updateRateLimitFromHeaders (lines 71-91).
updateRateLimitFromHeaders(a, remaining, reset) ==
    [a EXCEPT !.remaining = IF remaining # -1 THEN remaining ELSE @,
              !.hasReset = IF reset # -1 THEN TRUE ELSE @,
              !.untilReset = IF reset # -1 THEN reset ELSE @]

\* A caller starts a request: fetchRawFile with retryCount 0 and its useAuth,
\* searchCode, searchFileByName and getRepoBranch with the defaults (1, true).
ApiCall ==
    /\ api.pc = "idle"
    /\ api.ncalls < MaxApiCalls
    /\ \E c \in {[retryCount |-> 0, useAuth |-> FALSE], [retryCount |-> 0, useAuth |-> TRUE],
                  [retryCount |-> 1, useAuth |-> TRUE]} :
         api' = [api EXCEPT !.pc = "limits", !.retryCount = c.retryCount,
                            !.useAuth = c.useAuth, !.lastWait = 0, !.retries = 0,
                            !.ncalls = @ + 1, !.response = "none"]
    /\ UNCHANGED <<env, kv, req, pc, loc, calls, ret, detached, queue, nreq, vec>>

\* await respectRateLimits() (line 145).
ApiRespectLimits ==
    /\ api.pc = "limits"
    /\ LET w == respectRateLimits(api)
       IN  api' = [Elapse(api, w) EXCEPT !.pc = "fetch", !.lastWait = w]
    /\ UNCHANGED <<env, kv, req, pc, loc, calls, ret, detached, queue, nreq, vec>>

\* The retry: githubApiRequest(url, options, env, retryCount + 1) after a wait
\* of w ms; useAuth is not passed on and takes its default.
Retry(a, w) ==
    [Elapse(a, w) EXCEPT !.pc = "limits", !.retryCount = @ + 1, !.useAuth = TRUE,
                         !.lastWait = w, !.retries = @ + 1]

\* The fetch and what follows it (lines 159-233): a network error, or a
\* response whose headers update apiRateLimit; a rate-limit 403 and a network
\* error are retried while retryCount < MAX_RETRIES.
ApiFetch ==
    /\ api.pc = "fetch"
    /\ \E outcome \in {"error", "ok", "notok", "403-rate-limit", "403-other"},
          remaining \in RemainingHeaders, reset \in ResetHeaders :
         LET a == updateRateLimitFromHeaders(api, remaining, reset)
         IN  IF outcome = "error"
             THEN IF api.retryCount < MAX_RETRIES
                  THEN api' = Retry(api, 2000)
                  ELSE api' = [api EXCEPT !.pc = "done", !.response = "null"]
             ELSE IF outcome = "403-rate-limit" /\ a.retryCount < MAX_RETRIES
             THEN api' = Retry(a, rateLimitBackoff(a))
             ELSE api' = [a EXCEPT !.pc = "done",
                                   !.response = IF outcome = "ok" THEN "ok" ELSE "notok"]
    /\ UNCHANGED <<env, kv, req, pc, loc, calls, ret, detached, queue, nreq, vec>>

\* The caller has the response (or null).
ApiReturn ==
    /\ api.pc = "done"
    /\ api' = [api EXCEPT !.pc = "idle"]
    /\ UNCHANGED <<env, kv, req, pc, loc, calls, ret, detached, queue, nreq, vec>>

InitApi ==
    /\ env \in [DOCS_BUCKET : {TRUE}, GITHUB_TOKEN : BOOLEAN]
    /\ kv = [k \in CacheKeys |-> NoEntry]
    /\ req = NoRequest
    /\ pc = "idle"
    /\ loc = InitLoc
    /\ calls = <<>>
    /\ ret = NoRet
    /\ detached = {}
    /\ queue = 0
    /\ nreq = 0
    /\ api = ApiIdle
    /\ vec = {}

NextApi ==
    \/ ApiCall
    \/ ApiRespectLimits
    \/ ApiFetch
    \/ ApiReturn

SpecApi == InitApi /\ [][NextApi]_vars

\* ------------------------------------------- fetch_generic_url_content
\* The absolute URLs handed to the tool.
UrlPaths == {RootPath, BasePath("r"), BasePath("r") \o <<"llms.txt">>, <<"/", "x">>}
UrlInputs == {Url("example.com", p) : p \in UrlPaths} \cup {InvalidUrl}

HtmlAt(u) == "<html> of " \o UrlStr(u)
IsHtml(u, text) == text = HtmlAt(u)

\* The tool's locals: what fetchFileWithRobotsTxtCheck returned, and the
\* ruleset its verdict was taken from.
UrlLoc0 == [content |-> NULL, blockedByRobots |-> FALSE, rules |-> NoEntry]

\* fetchUrlContent (commonTools): blocked, not_found, or the text, converted to
\* Markdown when it looks like HTML and the conversion does not throw.
UrlResult(u, r, md) ==
    IF r.blockedByRobots
    THEN [kind |-> "url", status |-> "blocked", text |-> "disallowed by robots.txt"]
    ELSE IF ~Truthy(r.content)
    THEN [kind |-> "url", status |-> "not_found", text |-> "could not be retrieved"]
    ELSE [kind |-> "url", status |-> "success",
          text |-> IF IsHtml(u, r.content) /\ md # THROW THEN md ELSE r.content]

UrlStart ==
    /\ pc = "idle"
    /\ nreq < MaxRequests
    /\ \E u \in UrlInputs : req' = [tool |-> "url", url |-> u]
    /\ pc' = "url_fetch"
    /\ nreq' = nreq + 1
    /\ UNCHANGED <<env, kv, loc, calls, ret, detached, queue, api, vec>>

UrlFetch ==
    /\ pc = "url_fetch"
    /\ \E readOk \in BOOLEAN, resp \in RobotsResponses("example.com"), writeOk \in BOOLEAN,
          body \in UrlBodies(req.url) \cup {HtmlAt(req.url)} :
         LET r == fetchFileWithRobotsTxtCheck(req.url, readOk, resp, writeOk, body)
         IN  \E md \in htmlToMd(body) :
               /\ kv' = r.kv
               /\ calls' = r.calls
               /\ loc' = [content |-> r.content, blockedByRobots |-> r.blockedByRobots,
                          rules |-> r.rules]
               /\ ret' = UrlResult(req.url, r, md)
    /\ pc' = "return"
    /\ UNCHANGED <<env, req, detached, queue, nreq, api, vec>>

UrlReply ==
    /\ pc = "return"
    /\ pc' = "idle"
    /\ loc' = UrlLoc0
    /\ calls' = <<>>
    /\ ret' = NoRet
    /\ UNCHANGED <<env, kv, req, detached, queue, nreq, api, vec>>

InitUrl ==
    /\ env = [DOCS_BUCKET |-> TRUE]
    /\ kv = [k \in CacheKeys |-> NoEntry]
    /\ req = [tool |-> "none", url |-> InvalidUrl]
    /\ pc = "idle"
    /\ loc = UrlLoc0
    /\ calls = <<>>
    /\ ret = NoRet
    /\ detached = {}
    /\ queue = 0
    /\ nreq = 0
    /\ api = ApiIdle
    /\ vec = {}

NextUrl ==
    \/ UrlStart
    \/ UrlFetch
    \/ UrlReply
    \/ Expire

SpecUrl == InitUrl /\ [][NextUrl]_vars

\* ======================================================= properties of Spec
\* A resolution by fetchDocumentation has just ended, not from the cache.
Resolved(urlType) ==
    /\ pc = "return"
    /\ req.urlType = urlType
    /\ loc.result.kind = "value"
    /\ ~loc.result.cached

\* The static paths whose fetch gave non-empty content.
Yielding == {i \in DOMAIN possibleLocations : loc.results[i] \notin {Pending, NULL, EMPTY}}
Earliest(S) == CHOOSE i \in S : \A j \in S : i <= j

\* C1: for a github identity, whenever more than one of the three static paths
\* yields content, the result is taken from the earliest of them in declared
\* order (whatever order the fetches completed in).
C1_StaticPriority ==
    (Resolved("github") /\ Cardinality(Yielding) > 1)
    => /\ loc.result.text = loc.results[Earliest(Yielding)]
       /\ loc.docsPath = StaticUrl(loc, Earliest(Yielding))

\* The github strategies in the order the claim gives them.
Cascade ==
    <<"getRepoBranch", "static paths", "searchGitHubRepo llms.txt", "fetchFileFromR2",
      "searchGitHubRepo README">>

IsPrefix(p, q) == Len(p) <= Len(q) /\ SubSeq(q, 1, Len(p)) = p

OnlyRootLlms ==
    loc.results = <<NULL, FileText(req.owner, req.repo, "llms.txt"), NULL>>

\* C2: for a github identity the strategies are invoked strictly in the order
\* static paths, llms.txt search, object-store copy, README search; a step that
\* leaves non-empty content ends the resolution, so no later strategy is
\* invoked; when only the root llms.txt resolves, fileUsed is 'llms.txt' and
\* neither search nor the object store is called.
C2_StrictCascade ==
    /\ [](req.urlType = "github" => IsPrefix(calls, Cascade))
    /\ []((Resolved("github") /\ OnlyRootLlms)
          => /\ loc.result.fileUsed = "llms.txt"
             /\ loc.result.text = FileText(req.owner, req.repo, "llms.txt")
             /\ calls = SubSeq(Cascade, 1, 2))
    /\ [][(req.urlType = "github" /\ pc' # pc /\ pc' \in {"gh_search", "gh_r2", "gh_readme"})
          => ~Truthy(loc'.content)]_vars

C2_Witness ==
    /\ Resolved("github")
    /\ OnlyRootLlms
    /\ loc.result.fileUsed = "llms.txt"
    /\ calls = SubSeq(Cascade, 1, 2)

\* C3: a result served from the fetch-documentation cache was produced by an
\* earlier resolution of the same identity (owner, repo and urlType): subdomain
\* and github requests never receive each other's cached result.
C3_CachePerIdentity ==
    (pc = "return" /\ loc.result.kind = "value" /\ loc.result.cached)
    => loc.result.origin = req.urlType

\* C4: when the cache lookup finds a result, fetchDocumentation returns exactly
\* that result, having invoked no strategy step and having started no task.
C4_CacheShortCircuit ==
    loc.cachedResult.kind = "doc"
    => /\ pc = "return"
       /\ loc.result.kind = "value"
       /\ loc.result.fileUsed = loc.cachedResult.fileUsed
       /\ loc.result.text = loc.cachedResult.text
       /\ calls = <<>>
       /\ loc.tasks = {}
       /\ loc.results = InitLoc.results

C4_Witness ==
    /\ pc = "return"
    /\ loc.cachedResult.kind = "doc"
    /\ loc.result.text = loc.cachedResult.text
    /\ calls = <<>>

\* What the request's log shows of a robots-gated step on URL u.
Checked(u) == "robots-check " \o UrlStr(u) \in Range(calls)
Fetched(u) == "GET " \o UrlStr(u) \in Range(calls)
Blocked(u) == Checked(u) /\ ~Fetched(u)

\* The rules cached for the site of the request.
SiteRules == kv[getRobotsTxtCacheKey(baseURL.host)]

\* C5: for a subdomain identity whose llms.txt is allowed but absent and whose
\* landing page is disallowed while README.md is allowed, README.md is fetched
\* and the result is not the robots restriction.
C5_ReadmeAfterBlockedLanding ==
    (/\ Resolved("subdomain")
     /\ SiteRules.kind = "rules"
     /\ isPathAllowed(SiteRules.rules, llmsURL.path)
     /\ ~isPathAllowed(SiteRules.rules, baseURL.path)
     /\ isPathAllowed(SiteRules.rules, readmeURL.path)
     /\ Fetched(llmsURL)
     /\ Blocked(baseURL))
    => /\ Fetched(readmeURL)
       /\ loc.result.fileUsed # RestrictionFile

C8_NotFoundNeverThrows ==
    (pc = "return" /\ loc.result.kind # "none")
    => /\ loc.result.kind = "value"
       /\ (loc.result.text = RobotsText) <=> loc.blockedByRobots
       /\ (~loc.result.cached /\ ~Truthy(loc.content)) => loc.result.text = NotFoundText
       /\ req.urlType = "unknown" => loc.result.text = NotFoundText

\* C9: searchRepositoryDocumentation never throws to its caller; without the
\* object-store binding it degrades to the fallback response.
C9_SearchNeverThrows ==
    (pc = "return" /\ req.tool = "search")
    => /\ ret.kind = "search"
       /\ ~env.DOCS_BUCKET => ret.via = "fallback"

\* ==================================================== properties of SpecUrl
\* The rule group consulted for GitMCP disallows the path: some Disallow prefix
\* matches it and no Allow prefix does.
Disallowed(rules, path) ==
    /\ applicableRules(rules) # <<>>
    /\ \E d \in Range(applicableRules(rules)[1].disallow) : startsWith(path, d)
    /\ \A a \in Range(applicableRules(rules)[1].allow) : ~startsWith(path, a)

\* C7: fetchFileWithRobotsTxtCheck never issues the content fetch for a path the
\* domain's rules disallow (it returns content null with blockedByRobots true);
\* with an empty or missing ruleset, or one that could not be fetched, the path
\* is allowed and the content fetch is issued.
C7_RobotsGate ==
    (pc = "return" /\ req.url # InvalidUrl)
    => /\ (loc.rules.kind = "rules" /\ Disallowed(loc.rules.rules, req.url.path))
          => /\ ~Fetched(req.url)
             /\ loc.content = NULL
             /\ loc.blockedByRobots
             /\ ret.status = "blocked"
       /\ (loc.rules.kind = "none" \/ loc.rules.rules = <<>>)
          => /\ Fetched(req.url)
             /\ ~loc.blockedByRobots

C7_Witness ==
    /\ pc = "return"
    /\ loc.rules.kind = "rules"
    /\ Disallowed(loc.rules.rules, req.url.path)
    /\ loc.blockedByRobots
    /\ calls = <<"robots-check " \o UrlStr(req.url)>>

\* ==================================================== properties of SpecApi
\* C10: githubApiRequest retries at most 3 times in total, its retry counter
\* never passes MAX_RETRIES (so the recursion ends), and no single wait, before
\* a request or before a retry, is longer than 60 seconds.
C10_BoundedRetryAndWait ==
    /\ api.retries <= 3
    /\ api.retryCount <= MAX_RETRIES
    /\ api.lastWait <= 60000

\* ------------------------------------------------------- Vectorize index
\* The most matches one query is asked for when listing a namespace.
TOP_K == 100

\* Chunk count of the large document, one more than a query can list.
BigDoc == 101

\* The largest result limit a search is made with.
MaxLimit == 3

IndexRepos == {"r", "s"}
ChunkCounts == {0, 1, 2, BigDoc}
Limits == 1..MaxLimit

\* Scores in hundredths: cosine similarity and the keyword-match score.
VectorScores == {-100, 100}
KeywordScores == {0, 150}

getRepoNamespace(owner, repo) == owner \o ":" \o repo

\* `chunk:${chunkIndex}`: owner and repo are not part of the id.
getVectorId(owner, repo, chunkIndex) == <<"chunk", chunkIndex>>

\* A vector as the index holds it. gen is the call that wrote it and stands
\* for the chunk's text and timestamp.
Vector(owner, repo, chunkIndex, gen) ==
    [id |-> getVectorId(owner, repo, chunkIndex),
     namespace |-> getRepoNamespace(owner, repo),
     owner |-> owner, repo |-> repo, chunkIndex |-> chunkIndex, gen |-> gen]

InNamespace(index, namespace) == {e \in index : e.namespace = namespace}

\* The k vectors of S with the lowest (lowest = TRUE) or highest chunk index.
Extreme(S, k, lowest) ==
    {e \in S : Cardinality({f \in S : IF lowest THEN f.chunkIndex < e.chunkIndex
                                      ELSE f.chunkIndex > e.chunkIndex}) < k}

\* Vectorize.query restricted to a namespace returns at most topK of its
\* vectors: all of them when they fit, otherwise one of the listed selections.
VectorizeQuery(index, namespace, topK) ==
    LET S == InNamespace(index, namespace)
    IN IF Cardinality(S) <= topK THEN {S}
       ELSE {Extreme(S, topK, TRUE), Extreme(S, topK, FALSE)}

\* Vectorize.deleteByIds and Vectorize.upsert address vectors by id alone.
deleteByIds(index, ids) == {e \in index : e.id \notin ids}

upsert(index, vectors) ==
    {e \in index : e.id \notin {v.id : v \in vectors}} \cup vectors

StoreCount(n) == [kind |-> "count", n |-> n]

\* storeDocumentationVectors. nchunks is chunkDocumentation(content,
\* fileName).length; bound says whether a Vectorize binding was passed;
\* queryOk, deleteOk, embedOk and upsertOk are the outcomes of the listing
\* (with its embedding), the deletion, the chunk embeddings and the upsert.
storeDocumentationVectors_NoCleanupCatch(index, owner, repo, nchunks, gen, bound, queryOk, matches, deleteOk, embedOk, upsertOk) ==
    LET namespace == getRepoNamespace(owner, repo)
        cleaned == IF matches # {} THEN deleteByIds(index, {m.id : m \in matches})
                   ELSE index
        vectors == {Vector(owner, repo, i, gen) : i \in 0..(nchunks - 1)}
    IN IF ~bound THEN [ret |-> StoreCount(0), vec |-> index]
       ELSE IF ~queryOk THEN [ret |-> Thrown, vec |-> index]
       ELSE IF matches # {} /\ ~deleteOk THEN [ret |-> Thrown, vec |-> index]
       ELSE IF nchunks > 0 /\ ~embedOk THEN [ret |-> Thrown, vec |-> cleaned]
       ELSE IF ~upsertOk THEN [ret |-> Thrown, vec |-> cleaned]
       ELSE [ret |-> StoreCount(Cardinality(vectors)), vec |-> upsert(cleaned, vectors)]

storeDocumentationVectors(index, owner, repo, nchunks, gen, bound, queryOk, matches, deleteOk, embedOk, upsertOk) ==
    LET namespace == getRepoNamespace(owner, repo)
        cleaned == IF queryOk /\ matches # {} /\ deleteOk
                   THEN deleteByIds(index, {m.id : m \in matches})
                   ELSE index
        vectors == {Vector(owner, repo, i, gen) : i \in 0..(nchunks - 1)}
    IN IF ~bound THEN [ret |-> StoreCount(0), vec |-> index]
       ELSE IF nchunks > 0 /\ ~embedOk THEN [ret |-> Thrown, vec |-> cleaned]
       ELSE IF ~upsertOk THEN [ret |-> Thrown, vec |-> cleaned]
       ELSE [ret |-> StoreCount(Cardinality(vectors)), vec |-> upsert(cleaned, vectors)]

\* combinedScore in thousandths, from scores in hundredths:
\* ((score + 1) / 2) * 0.6 + keywordScore * 0.4.
combinedScore(vectorScore, keywordScore) ==
    ((vectorScore + 100) \div 2) * 6 + keywordScore * 4

Enhance(match) ==
    [chunk |-> match.chunk, vectorScore |-> match.score,
     keywordScore |-> match.keywordScore,
     combinedScore |-> combinedScore(match.score, match.keywordScore)]

\* Array.prototype.sort with (a, b) => b.combinedScore - a.combinedScore:
\* descending, and stable.
InsertDesc_BeforeTies(sorted, x) ==
    LET k == Cardinality({i \in 1..Len(sorted) :
                             sorted[i].combinedScore > x.combinedScore})
    IN SubSeq(sorted, 1, k) \o <<x>> \o SubSeq(sorted, k + 1, Len(sorted))

InsertDesc(sorted, x) ==
    LET k == Cardinality({i \in 1..Len(sorted) :
                             sorted[i].combinedScore >= x.combinedScore})
    IN SubSeq(sorted, 1, k) \o <<x>> \o SubSeq(sorted, k + 1, Len(sorted))

RECURSIVE SortDesc(_)
SortDesc(s) ==
    IF s = <<>> THEN <<>>
    ELSE InsertDesc(SortDesc(SubSeq(s, 1, Len(s) - 1)), s[Len(s)])

slice(s, limit) == SubSeq(s, 1, Min(limit, Len(s)))

\* searchDocumentation. matches is what Vectorize.query answered, each match
\* with the keyword score calculateKeywordMatchScore gives its chunk.
searchDocumentation(matches, limit, bound, queryOk) ==
    IF ~bound \/ ~queryOk \/ matches = <<>> THEN <<>>
    ELSE LET sorted == slice(SortDesc([i \in 1..Len(matches) |-> Enhance(matches[i])]), limit)
         IN [i \in 1..Len(sorted) |->
                [chunk |-> sorted[i].chunk, score |-> sorted[i].combinedScore]]

\* The answers Vectorize.query can give a search: up to topK vectors of the
\* namespace among its first MaxLimit chunks, nearest first.
RECURSIVE MatchSeqs(_, _, _)
MatchSeqs(S, topK, ceiling) ==
    IF topK = 0 THEN {<<>>}
    ELSE {<<>>} \cup
         UNION {{<<[chunk |-> e, score |-> v, keywordScore |-> k]>> \o t :
                    t \in MatchSeqs(S \ {e}, topK - 1, v)} :
                <<e, v, k>> \in S \X {w \in VectorScores : w <= ceiling} \X KeywordScores}

StoreVectors ==
    /\ pc = "idle"
    /\ nreq < MaxRequests
    /\ \E repo \in IndexRepos, nchunks \in ChunkCounts,
          bound, queryOk, deleteOk, embedOk, upsertOk \in BOOLEAN :
       \E matches \in IF bound /\ queryOk
                      THEN VectorizeQuery(vec, getRepoNamespace("o", repo), TOP_K)
                      ELSE {{}} :
          LET r == storeDocumentationVectors(vec, "o", repo, nchunks, nreq + 1, bound,
                                             queryOk, matches, deleteOk, embedOk, upsertOk)
          IN /\ vec' = r.vec
             /\ ret' = r.ret
             /\ req' = [tool |-> "storeDocumentationVectors", owner |-> "o",
                        repo |-> repo, nchunks |-> nchunks, bound |-> bound,
                        limit |-> 0, queryOk |-> queryOk, deleteOk |-> deleteOk,
                        embedOk |-> embedOk, upsertOk |-> upsertOk,
                        matches |-> <<>>, before |-> vec]
    /\ pc' = "return"
    /\ nreq' = nreq + 1
    /\ UNCHANGED <<env, kv, loc, calls, detached, queue, api>>

SearchDocs ==
    /\ pc = "idle"
    /\ \E repo \in IndexRepos, limit \in Limits, bound, queryOk \in BOOLEAN :
       \E matches \in IF bound /\ queryOk
                      THEN MatchSeqs({e \in InNamespace(vec, getRepoNamespace("o", repo)) :
                                         e.chunkIndex < MaxLimit}, limit, 100)
                      ELSE {<<>>} :
          /\ ret' = [kind |-> "results",
                     results |-> searchDocumentation(matches, limit, bound, queryOk)]
          /\ req' = [tool |-> "searchDocumentation", owner |-> "o", repo |-> repo,
                     nchunks |-> 0, bound |-> bound, limit |-> limit,
                     queryOk |-> queryOk, deleteOk |-> TRUE,
                     embedOk |-> TRUE, upsertOk |-> TRUE,
                     matches |-> matches, before |-> vec]
    /\ pc' = "return"
    /\ UNCHANGED <<env, kv, loc, calls, detached, queue, nreq, api, vec>>

\* The caller takes the result.
IndexReply ==
    /\ pc = "return"
    /\ req.tool \in {"storeDocumentationVectors", "searchDocumentation"}
    /\ req' = [tool |-> "none"]
    /\ ret' = NoRet
    /\ pc' = "idle"
    /\ UNCHANGED <<env, kv, loc, calls, detached, queue, nreq, api, vec>>

InitIndex ==
    /\ env = [DOCS_BUCKET |-> TRUE]
    /\ kv = [k \in CacheKeys |-> NoEntry]
    /\ req = [tool |-> "none"]
    /\ pc = "idle"
    /\ loc = InitLoc
    /\ calls = <<>>
    /\ ret = NoRet
    /\ detached = {}
    /\ queue = 0
    /\ nreq = 0
    /\ api = ApiIdle
    /\ vec = {}

NextIndex ==
    \/ StoreVectors
    \/ SearchDocs
    \/ IndexReply

SpecIndex == InitIndex /\ [][NextIndex]_vars


\* ---------------------------------------------------- index properties
Stored == pc = "return" /\ req.tool = "storeDocumentationVectors"
Searched == pc = "return" /\ req.tool = "searchDocumentation"
ReqNamespace == getRepoNamespace(req.owner, req.repo)

\* C11: indexing or re-indexing one repository leaves every index entry of
\* every other repository's namespace in place and unchanged, and a search in
\* the namespace owner:repo returns only chunks stored for that repository.
C11_NamespaceIsolation ==
    /\ Stored => \A e \in req.before : e.namespace # ReqNamespace => e \in vec
    /\ Searched => \A i \in DOMAIN ret.results :
                      /\ ret.results[i].chunk.namespace = ReqNamespace
                      /\ ret.results[i].chunk.repo = req.repo

\* C12: when storeDocumentationVectors succeeds on a namespace that already
\* held entries, however many, and neither the listing nor the deletion
\* failed, no earlier entry of that namespace remains: the namespace holds at
\* most as many entries as the call returned.
C12_ReindexReplaces ==
    (/\ Stored
     /\ ret.kind = "count"
     /\ req.bound /\ req.queryOk /\ req.deleteOk
     /\ InNamespace(req.before, ReqNamespace) # {})
    => /\ InNamespace(vec, ReqNamespace) \cap req.before = {}
       /\ Cardinality(InNamespace(vec, ReqNamespace)) <= ret.n


\* C13: storeDocumentationVectors does not fail because listing or deleting
\* the existing entries failed, and still inserts; a failing embedding or
\* upsert makes the call fail; a successful call returns the number of vectors
\* it upserted, which is the number of chunks; without an index binding it
\* returns 0 and stores nothing.
C13_StoreOutcome ==
    Stored =>
      /\ ~req.bound => ret = StoreCount(0) /\ vec = req.before
      /\ req.bound =>
            /\ ret.kind = "throw" <=> (req.nchunks > 0 /\ ~req.embedOk) \/ ~req.upsertOk
            /\ ret.kind = "count" =>
                  /\ ret.n = req.nchunks
                  /\ Cardinality({e \in vec : e.gen = nreq /\ e.namespace = ReqNamespace})
                        = req.nchunks

C13_Witness ==
    /\ Stored
    /\ req.bound /\ req.queryOk /\ ~req.deleteOk
    /\ InNamespace(req.before, ReqNamespace) # {}
    /\ ret.kind = "count" /\ ret.n = 2


\* Where Vectorize.query placed a chunk in its answer.
MatchPos(chunk) == CHOOSE p \in DOMAIN req.matches : req.matches[p].chunk = chunk

\* C17: searchDocumentation returns at most limit results, in non-increasing
\* order of combinedScore = 0.6 * ((vectorScore + 1) / 2) + 0.4 * keywordScore,
\* and results of equal score keep the order the vector query gave them.
C17_RankedResults ==
    Searched =>
      LET R == ret.results
      IN /\ Len(R) <= req.limit
         /\ \A i \in DOMAIN R :
               LET m == req.matches[MatchPos(R[i].chunk)]
               IN R[i].score = 3 * (m.score + 100) + 4 * m.keywordScore
         /\ \A i, j \in DOMAIN R :
               i < j => /\ R[i].score >= R[j].score
                        /\ R[i].score = R[j].score
                              => MatchPos(R[i].chunk) < MatchPos(R[j].chunk)

C17_Witness ==
    /\ Searched
    /\ Len(ret.results) = 3
    /\ ret.results[1].score > ret.results[2].score
    /\ ret.results[2].score = ret.results[3].score
    /\ ret.results[1].chunk # req.matches[1].chunk


\* ------------------------------------------------------ enqueue properties
EnqueueTask == [task |-> "enqueue", key |-> "",
                value |-> [owner |-> req.owner, repo |-> req.repo]]

\* C14: the enqueue never blocks fetchDocumentation nor alters its outcome.
\* The call returns the fileUsed and content its resolution found while the
\* enqueue is still a pending waitUntil task, no call that reached the enqueue
\* throws, and the later send, whether it succeeds, fails or finds no queue,
\* changes nothing of what was returned.
C14_EnqueueDetached ==
    /\ [](pc = "return" =>
            /\ (loc.result.kind = "value" /\ ~loc.result.cached) =>
                  /\ loc.result.fileUsed = loc.fileUsed
                  /\ loc.result.text = (IF Truthy(loc.content) THEN loc.content
                                        ELSE NotFoundText)
                  /\ HasRepo => EnqueueTask \in loc.tasks
            /\ loc.result.kind = "throw" => EnqueueTask \notin loc.tasks)
    /\ [][(\E t \in detached \ detached' : t.task = "enqueue")
            => UNCHANGED <<pc, loc, ret, kv>>]_vars

C14_Witness ==
    /\ pc = "return"
    /\ nreq = 2 /\ queue = 0
    /\ \A t \in detached : t.task # "enqueue"
    /\ loc.result.kind = "value" /\ ~loc.result.cached
    /\ Truthy(loc.content)
    /\ EnqueueTask \in loc.tasks


\* C15: a documentation search for a repository with no index yet triggers
\* indexing on every such search: whenever the search answers with the
\* "being indexed, here is the fallback full document" message, the
\* documentation-processing event for that repository has been handed to
\* waitUntil by this request.
C15_SearchTriggersIndexing ==
    (/\ pc = "return"
     /\ req.tool = "search"
     /\ HasRepo
     /\ ret.kind = "search" /\ ret.via = "fallback")
    => EnqueueTask \in loc.tasks


\* ------------------------------------------------- getRepoBranch, by step
\* One call of getRepoBranch at a time: the responses it has seen so far
\* ("unasked" for a request it has not made) and the requests in order.
BranchLoc0 == [apiR |-> "unasked", mainR |-> "unasked", masterR |-> "unasked",
               probes |-> <<>>]

BranchResult(l) == [kind |-> "branch", name |-> getRepoBranch(l.apiR, l.mainR, l.masterR)]

BranchStart ==
    /\ pc = "idle"
    /\ nreq < MaxRequests
    /\ \E repo \in IndexRepos :
         req' = [tool |-> "getRepoBranch", owner |-> "o", repo |-> repo]
    /\ loc' = BranchLoc0
    /\ pc' = "br_api"
    /\ nreq' = nreq + 1
    /\ UNCHANGED <<env, kv, calls, ret, detached, queue, api, vec>>

\* Lines 117-126: GET /repos/{owner}/{repo}; default_branch when the body has
\* one; a body that cannot be read lands in the catch.
BranchApi ==
    /\ pc = "br_api"
    /\ \E apiR \in RepoResponses :
         LET l == [loc EXCEPT !.apiR = apiR, !.probes = @ \o <<"api">>]
         IN /\ loc' = l
            /\ IF apiR \in {"ok-dev", "ok-bodyerr"}
               THEN /\ ret' = BranchResult(l)
                    /\ pc' = "return"
               ELSE /\ pc' = "br_main"
                    /\ UNCHANGED ret
    /\ UNCHANGED <<env, kv, req, calls, detached, queue, nreq, api, vec>>

\* Lines 135-145: HEAD of README.md on 'main'.
BranchMain ==
    /\ pc = "br_main"
    /\ \E mainR \in HeadResponses :
         LET l == [loc EXCEPT !.mainR = mainR, !.probes = @ \o <<"main">>]
         IN /\ loc' = l
            /\ IF mainR = "ok"
               THEN /\ ret' = BranchResult(l)
                    /\ pc' = "return"
               ELSE /\ pc' = "br_master"
                    /\ UNCHANGED ret
    /\ UNCHANGED <<env, kv, req, calls, detached, queue, nreq, api, vec>>

\* Lines 147-170: HEAD of README.md on 'master'; when it fails too, the throw
\* of line 161 is caught and 'main' is returned.
BranchMaster ==
    /\ pc = "br_master"
    /\ \E masterR \in HeadResponses :
         LET l == [loc EXCEPT !.masterR = masterR, !.probes = @ \o <<"master">>]
         IN /\ loc' = l
            /\ ret' = BranchResult(l)
            /\ pc' = "return"
    /\ UNCHANGED <<env, kv, req, calls, detached, queue, nreq, api, vec>>

BranchReply ==
    /\ pc = "return"
    /\ req.tool = "getRepoBranch"
    /\ req' = [tool |-> "none"]
    /\ loc' = BranchLoc0
    /\ ret' = NoRet
    /\ pc' = "idle"
    /\ UNCHANGED <<env, kv, calls, detached, queue, nreq, api, vec>>

InitBranch ==
    /\ env = [DOCS_BUCKET |-> TRUE]
    /\ kv = [k \in CacheKeys |-> NoEntry]
    /\ req = [tool |-> "none"]
    /\ pc = "idle"
    /\ loc = BranchLoc0
    /\ calls = <<>>
    /\ ret = NoRet
    /\ detached = {}
    /\ queue = 0
    /\ nreq = 0
    /\ api = ApiIdle
    /\ vec = {}

NextBranch ==
    \/ BranchStart
    \/ BranchApi
    \/ BranchMain
    \/ BranchMaster
    \/ BranchReply

SpecBranch == InitBranch /\ [][NextBranch]_vars

Blank == <<>>

RECURSIVE Rep(_, _)
Rep(c, n) == IF n = 0 THEN <<>> ELSE <<c>> \o Rep(c, n - 1)

RECURSIVE SumLen(_)
SumLen(lines) == IF lines = <<>> THEN 0 ELSE Len(Head(lines)) + SumLen(Tail(lines))

\* String.length of the lines joined by "\n".
StrLen(lines) == IF lines = <<>> THEN 0 ELSE SumLen(lines) + Len(lines) - 1

IsSpace(c) == c = " "

RECURSIVE TrimStart(_)
TrimStart(l) == IF l # <<>> /\ IsSpace(Head(l)) THEN TrimStart(Tail(l)) ELSE l

RECURSIVE TrimEnd(_)
TrimEnd(l) ==
    IF l # <<>> /\ IsSpace(l[Len(l)]) THEN TrimEnd(SubSeq(l, 1, Len(l) - 1)) ELSE l

\* String.prototype.trim on one line.
TrimLine(l) == TrimEnd(TrimStart(l))

\* String.prototype.trim on a text: leading and trailing white space goes,
\* newlines included.
RECURSIVE DropBlankStart(_)
DropBlankStart(lines) ==
    IF lines # <<>> /\ TrimLine(Head(lines)) = Blank
    THEN DropBlankStart(Tail(lines)) ELSE lines

RECURSIVE DropBlankEnd(_)
DropBlankEnd(lines) ==
    IF lines # <<>> /\ TrimLine(lines[Len(lines)]) = Blank
    THEN DropBlankEnd(SubSeq(lines, 1, Len(lines) - 1)) ELSE lines

TrimText(lines) ==
    LET t == DropBlankEnd(DropBlankStart(lines))
    IN [k \in 1..Len(t) |->
           IF k = 1 /\ k = Len(t) THEN TrimLine(t[k])
           ELSE IF k = 1 THEN TrimStart(t[k])
           ELSE IF k = Len(t) THEN TrimEnd(t[k])
           ELSE t[k]]

\* The number of leading '#' of a line.
RECURSIVE Hashes(_)
Hashes(l) == IF l # <<>> /\ Head(l) = "#" THEN 1 + Hashes(Tail(l)) ELSE 0

\* /^(#{1,6})\s+(.+)/ on a line: 1 to 6 '#', white space, and a title.
IsHeaderLine(l) ==
    LET n == Hashes(l)
    IN /\ n >= 1 /\ n <= 6
       /\ Len(l) > n + 1
       /\ IsSpace(l[n + 1])

\* chunkText's /\n(#{1,6}\s+[^\n]+)\n/g matches line i: a heading line with
\* a line before and a line after, and not directly below a matched heading,
\* whose trailing newline that match has consumed.
RECURSIVE IsSplitHeading(_, _)
IsSplitHeading(lines, i) ==
    /\ i > 1 /\ i < Len(lines)
    /\ IsHeaderLine(lines[i])
    /\ ~IsSplitHeading(lines, i - 1)

\* text.split(headingPattern), paired: each content with the heading above it
\* (Blank for the content before the first heading).
RECURSIVE SplitSections(_, _, _, _)
SplitSections(lines, i, heading, content) ==
    IF i > Len(lines) THEN <<[heading |-> heading, content |-> content]>>
    ELSE IF IsSplitHeading(lines, i)
    THEN <<[heading |-> heading, content |-> content]>>
         \o SplitSections(lines, i + 1, TrimLine(lines[i]), <<>>)
    ELSE SplitSections(lines, i + 1, heading, content \o <<lines[i]>>)

\* contentWithHeading.split(/\n\n+/), each paragraph trimmed and the empty
\* ones skipped: the runs of lines between empty lines.
RECURSIVE Paragraphs(_, _)
Paragraphs(lines, run) ==
    LET done == IF TrimText(run) = <<>> THEN <<>> ELSE <<TrimText(run)>>
    IN IF lines = <<>> THEN done
       ELSE IF Head(lines) = Blank THEN done \o Paragraphs(Tail(lines), <<>>)
       ELSE Paragraphs(Tail(lines), run \o <<Head(lines)>>)

\* The paragraph loop of chunkText (lines 1156-1183): currentChunk and the
\* chunks pushed so far.
RECURSIVE PackParagraphs(_, _, _, _, _)
PackParagraphs(paragraphs, currentChunk, chunks, maxChunkSize, minChunkSize) ==
    IF paragraphs = <<>> THEN [currentChunk |-> currentChunk, chunks |-> chunks]
    ELSE LET p == Head(paragraphs)
             joined == IF currentChunk = <<>> THEN p ELSE currentChunk \o <<Blank>> \o p
         IN IF /\ currentChunk # <<>>
               /\ StrLen(currentChunk) + StrLen(p) + 2 > maxChunkSize
               /\ StrLen(currentChunk) >= minChunkSize
            THEN PackParagraphs(Tail(paragraphs), p, chunks \o <<TrimText(currentChunk)>>,
                                maxChunkSize, minChunkSize)
            ELSE PackParagraphs(Tail(paragraphs), joined, chunks,
                                maxChunkSize, minChunkSize)

\* The chunks of one section (lines 1137-1190).
SectionChunks(section, maxChunkSize, minChunkSize) ==
    LET contentWithHeading == IF section.heading # Blank
                              THEN <<section.heading, Blank>> \o section.content
                              ELSE section.content
        packed == PackParagraphs(Paragraphs(contentWithHeading, <<>>), <<>>, <<>>,
                                 maxChunkSize, minChunkSize)
    IN IF StrLen(contentWithHeading) <= maxChunkSize
       THEN IF TrimText(contentWithHeading) # <<>>
            THEN <<TrimText(contentWithHeading)>> ELSE <<>>
       ELSE IF StrLen(TrimText(packed.currentChunk)) >= minChunkSize
            THEN packed.chunks \o <<TrimText(packed.currentChunk)>>
            ELSE packed.chunks

RECURSIVE Flatten(_)
Flatten(ss) == IF ss = <<>> THEN <<>> ELSE Head(ss) \o Flatten(Tail(ss))

\* chunkText, section by section.
chunkTextBySection(text, maxChunkSize, minChunkSize) ==
    LET sections == SplitSections(text, 1, Blank, <<>>)
    IN [k \in 1..Len(sections) |-> SectionChunks(sections[k], maxChunkSize, minChunkSize)]

chunkText(text, maxChunkSize, minChunkSize) ==
    Flatten(chunkTextBySection(text, maxChunkSize, minChunkSize))


\* chunkText's default maxChunkSize and minChunkSize.
DEFAULT_MAX_CHUNK == 1500
DEFAULT_MIN_CHUNK == 500

\* ---- chunkStructuredDocs
HeaderLevel(l) == Hashes(l)
HeaderTitle(l) == TrimLine(SubSeq(l, Hashes(l) + 1, Len(l)))

\* Lines 1498-1507: the headers of the text, in document order.
RECURSIVE HeadersFrom(_, _)
HeadersFrom(lines, i) ==
    IF i > Len(lines) THEN <<>>
    ELSE (IF IsHeaderLine(lines[i])
          THEN <<[level |-> HeaderLevel(lines[i]), title |-> HeaderTitle(lines[i]),
                  lineIndex |-> i]>>
          ELSE <<>>) \o HeadersFrom(lines, i + 1)

HeaderText(header) == Rep("#", header.level) \o <<" ">> \o header.title

StartsWithListMarker(l) ==
    Len(l) >= 2 /\ l[1] \in {"-", "*"} /\ IsSpace(l[2])

\* /^\[([^\]]+)\]\(([^)]+)\)/ on a line: "[title](url" closed by ")".
IsLinkLine(l) ==
    /\ Len(l) >= 6
    /\ l[1] = "["
    /\ \E a \in 3..Len(l) :
          /\ l[a] = "]"
          /\ \A k \in 2..(a - 1) : l[k] # "]"
          /\ a + 3 <= Len(l)
          /\ l[a + 1] = "("
          /\ \E b \in (a + 3)..Len(l) :
                /\ l[b] = ")"
                /\ \A k \in (a + 2)..(b - 1) : l[k] # ")"

\* A line that starts something new: a header, a link entry or a list item.
IsBoundary(l) ==
    IsHeaderLine(TrimLine(l)) \/ IsLinkLine(TrimLine(l)) \/ StartsWithListMarker(TrimLine(l))

IsEntryStart(l) ==
    ~IsHeaderLine(TrimLine(l)) /\ (IsLinkLine(TrimLine(l)) \/ StartsWithListMarker(TrimLine(l)))

\* Lines 1514-1532: the description under the first header, up to the next
\* header or to an empty line followed by a list item.
RECURSIVE MainDescription(_, _)
MainDescription(lines, i) ==
    IF i > Len(lines) THEN <<>>
    ELSE LET line == TrimLine(lines[i])
         IN IF IsHeaderLine(line) THEN <<>>
            ELSE IF /\ line = Blank
                    /\ i + 1 <= Len(lines)
                    /\ StartsWithListMarker(TrimLine(lines[i + 1]))
            THEN <<>>
            ELSE (IF line # Blank THEN <<line>> ELSE <<>>) \o MainDescription(lines, i + 1)

\* Lines 1510-1538: the chunk of the document title and its description.
MainChunk(lines, headers) ==
    IF headers = <<>> THEN <<>>
    ELSE LET mainDescription == MainDescription(lines, headers[1].lineIndex + 1)
         IN IF mainDescription = <<>> THEN <<>>
            ELSE << <<<<"#", " ">> \o headers[1].title, Blank>> \o mainDescription >>

\* getCurrentHeader (lines 1541-1568): the loop over the headers in document
\* order, from header k on, with headerContext and currentHeaderLevel so far.
RECURSIVE HeaderLoop(_, _, _, _, _)
HeaderLoop(headers, k, lineIndex, headerContext, currentHeaderLevel) ==
    IF k > Len(headers) THEN headerContext
    ELSE LET header == headers[k]
         IN IF header.lineIndex < lineIndex /\ header.level <= currentHeaderLevel
            THEN IF /\ header.level = 1
                    /\ \E h \in DOMAIN headers :
                          headers[h].level = 2 /\ headers[h].lineIndex < lineIndex
                 THEN HeaderLoop(headers, k + 1, lineIndex, HeaderText(header), header.level)
                 ELSE IF header.level \in {2, 3}
                 THEN HeaderText(header)
                 ELSE HeaderLoop(headers, k + 1, lineIndex, HeaderText(header), header.level)
            ELSE HeaderLoop(headers, k + 1, lineIndex, headerContext, currentHeaderLevel)

\* Number.MAX_SAFE_INTEGER stands above every header level.
getCurrentHeader(headers, lineIndex) == HeaderLoop(headers, 1, lineIndex, Blank, 7)

\* The continuation loops (lines 1592-1625, 1653-1686): the entry runs to the
\* first header, link entry or list item after it; its non-empty lines are
\* kept, trimmed.
RECURSIVE EntryEnd(_, _)
EntryEnd(lines, j) ==
    IF j > Len(lines) \/ IsBoundary(lines[j]) THEN j ELSE EntryEnd(lines, j + 1)

EntryContent(lines, i, j) ==
    <<TrimLine(lines[i])>>
    \o SelectSeq([k \in 1..(j - i - 1) |-> TrimLine(lines[i + k])], LAMBDA l : l # Blank)

\* Step 2 (lines 1576-1706): one chunk per link entry and per list item, with
\* the header context in front.
RECURSIVE EntryChunks(_, _, _)
EntryChunks(lines, headers, i) ==
    IF i > Len(lines) THEN <<>>
    ELSE IF IsEntryStart(lines[i])
    THEN LET j == EntryEnd(lines, i + 1)
             headerContext == getCurrentHeader(headers, i)
             entry == EntryContent(lines, i, j)
         IN << IF headerContext # Blank THEN <<headerContext, Blank>> \o entry ELSE entry >>
            \o EntryChunks(lines, headers, j)
    ELSE EntryChunks(lines, headers, i + 1)

\* Array.from(new Set(chunks)): the first occurrence of each chunk.
RECURSIVE Unique(_)
Unique(chunks) ==
    IF chunks = <<>> THEN <<>>
    ELSE LET rest == Unique(SubSeq(chunks, 1, Len(chunks) - 1))
             last == chunks[Len(chunks)]
         IN IF \E k \in DOMAIN rest : rest[k] = last THEN rest ELSE rest \o <<last>>

\* The shortest chunk chunkStructuredDocs keeps is longer than this.
STRUCTURED_MIN == 10

StructuredChunks(text) ==
    LET headers == HeadersFrom(text, 1)
        chunks == MainChunk(text, headers) \o EntryChunks(text, headers, 1)
        kept == SelectSeq(Unique(chunks), LAMBDA c : StrLen(c) > STRUCTURED_MIN)
    IN [k \in 1..Len(kept) |-> TrimText(kept[k])]

chunkStructuredDocs(text) ==
    IF StructuredChunks(text) = <<>>
    THEN chunkText(text, DEFAULT_MAX_CHUNK, DEFAULT_MIN_CHUNK)
    ELSE StructuredChunks(text)

\* ---- chunkReadme
\* The texts considered hold no badge line and no centered block: isBadgeLine
\* is false of every line and inBadgeSection stays false.
Contains(l, pattern) ==
    \E k \in 1..(Len(l) - Len(pattern) + 1) : SubSeq(l, k, k + Len(pattern) - 1) = pattern

TextIncludes(text, pattern) == \E k \in DOMAIN text : Contains(text[k], pattern)

\* Lines 824-829.
isReadmeLike(text) ==
    /\ Cardinality({k \in DOMAIN text : IsHeaderLine(text[k])}) > 1
    /\ \/ TextIncludes(text, <<"backtick", "backtick", "backtick">>)
       \/ TextIncludes(text, <<"*", " ">>)
       \/ TextIncludes(text, <<"-", " ">>)

NoSection == [has |-> FALSE, level |-> 0, title |-> Blank, content |-> <<>>]

\* The backquote character is written "backtick".
Fence == <<"backtick", "backtick", "backtick">>

\* line.trim().startsWith("```")
StartsFence(l) ==
    Len(TrimLine(l)) >= Len(Fence) /\ SubSeq(TrimLine(l), 1, Len(Fence)) = Fence

\* Lines 934-943: the line that closes the code block opened above line j,
\* or one past the last line when nothing closes it.
RECURSIVE FenceEnd(_, _)
FenceEnd(lines, j) ==
    IF j > Len(lines) \/ StartsFence(lines[j]) THEN j ELSE FenceEnd(lines, j + 1)

\* The line loop of chunkReadme (lines 893-973) from line i on: the sections
\* finished so far, the section being read, and the text before the first
\* header with the title it is given.
RECURSIVE ReadmeScan(_, _, _, _, _, _)
ReadmeScan(lines, i, sections, currentSection, mainHeaderContent, mainTitle) ==
    IF i > Len(lines)
    THEN [sections |-> IF currentSection.has THEN sections \o <<currentSection>>
                       ELSE sections,
          mainHeaderContent |-> mainHeaderContent, mainTitle |-> mainTitle]
    ELSE LET line == lines[i]
             header == [has |-> TRUE, level |-> Hashes(line),
                        title |-> TrimLine(SubSeq(line, Hashes(line) + 1, Len(line))),
                        content |-> <<Rep("#", Hashes(line)) \o <<" ">>
                                      \o TrimLine(SubSeq(line, Hashes(line) + 1, Len(line)))>>]
             onlyHeader == Len(currentSection.content) = 1
         IN IF IsHeaderLine(line)
            THEN IF currentSection.has
                 THEN ReadmeScan(lines, i + 1, sections \o <<currentSection>>, header,
                                 mainHeaderContent, mainTitle)
                 ELSE IF mainHeaderContent # <<>>
                 THEN ReadmeScan(lines, i + 1, sections, header,
                                 TrimText(mainHeaderContent), header.title)
                 ELSE ReadmeScan(lines, i + 1, sections, header,
                                 mainHeaderContent, mainTitle)
            ELSE IF currentSection.has
            THEN IF StartsFence(line)
                 THEN LET j == FenceEnd(lines, i + 1)
                          codeBlock == SubSeq(lines, i, Min(j, Len(lines)))
                      IN ReadmeScan(lines, j + 1, sections,
                                    [currentSection EXCEPT !.content =
                                        @ \o <<Blank>> \o codeBlock \o <<Blank>>],
                                    mainHeaderContent, mainTitle)
                 ELSE IF TrimLine(line) # Blank
                 THEN ReadmeScan(lines, i + 1, sections,
                                 [currentSection EXCEPT !.content =
                                     IF onlyHeader THEN @ \o <<Blank, line>> ELSE @ \o <<line>>],
                                 mainHeaderContent, mainTitle)
                 ELSE ReadmeScan(lines, i + 1, sections,
                                 [currentSection EXCEPT !.content =
                                     IF onlyHeader THEN @ ELSE @ \o <<Blank>>],
                                 mainHeaderContent, mainTitle)
            ELSE ReadmeScan(lines, i + 1, sections, currentSection,
                            IF TrimLine(line) # Blank THEN mainHeaderContent \o <<line>>
                            ELSE mainHeaderContent,
                            mainTitle)

\* A chunk being grown past this many characters is closed at the next
\* section of its level or above; chunks of at most README_MIN are dropped.
README_MAX == 2000
README_MIN == 50

\* The grouping loop (lines 1019-1055): currentChunk ("" is the one empty
\* line), currentLevel and the chunks pushed so far.
RECURSIVE GroupSections(_, _, _, _)
GroupSections(sections, currentChunk, currentLevel, chunks) ==
    IF sections = <<>>
    THEN IF StrLen(currentChunk) > 0 THEN chunks \o <<TrimText(currentChunk)>> ELSE chunks
    ELSE LET section == Head(sections)
         IN IF section.level \in {1, 2}
            THEN GroupSections(Tail(sections), section.content, section.level,
                               IF StrLen(currentChunk) > 0
                               THEN chunks \o <<TrimText(currentChunk)>> ELSE chunks)
            ELSE IF section.level <= currentLevel /\ StrLen(currentChunk) > README_MAX
            THEN GroupSections(Tail(sections), section.content, section.level,
                               chunks \o <<TrimText(currentChunk)>>)
            ELSE GroupSections(Tail(sections),
                               currentChunk \o <<Blank>> \o section.content,
                               currentLevel, chunks)

chunkReadme(text) ==
    IF ~isReadmeLike(text) THEN chunkText(text, DEFAULT_MAX_CHUNK, DEFAULT_MIN_CHUNK)
    ELSE LET scan == ReadmeScan(text, 1, <<>>, NoSection, <<>>, Blank)
             main == IF scan.mainHeaderContent = <<>> THEN <<>>
                     ELSE IF scan.mainTitle # Blank
                     THEN << <<<<"#", " ">> \o scan.mainTitle, Blank>>
                             \o scan.mainHeaderContent >>
                     ELSE <<scan.mainHeaderContent>>
             chunks == GroupSections(scan.sections, <<Blank>>, 0, main)
         IN SelectSeq(chunks, LAMBDA c : StrLen(TrimText(c)) > README_MIN)

\* fileName?.toLowerCase().includes("llms.txt")
IsLlmsTxt(fileName) == fileName \in {"llms.txt", "LLMS.txt", "docs/llms.txt"}

\* chunkDocumentation: the structured chunker for an llms.txt, then the README
\* chunker, then the structured chunker, then chunkText; the first that
\* gives a chunk decides.
chunkDocumentation(text, fileName) ==
    IF IsLlmsTxt(fileName) /\ chunkStructuredDocs(text) # <<>>
    THEN chunkStructuredDocs(text)
    ELSE IF chunkReadme(text) # <<>> THEN chunkReadme(text)
    ELSE IF chunkStructuredDocs(text) # <<>> THEN chunkStructuredDocs(text)
    ELSE chunkText(text, DEFAULT_MAX_CHUNK, DEFAULT_MIN_CHUNK)

\* The longest text, in lines, and the sizes chunkText is called with directly.
MaxDocLines == 4
SmallMax == 12
SmallMin == 5

\* The lines texts are made of: "# P", "## A", "## B", "### C", a list item,
\* a link entry "[L](u): d", a word, a 60-character line and the empty line.
H1 == <<"#", " ", "P">>
H2A == <<"#", "#", " ", "A">>
H2B == <<"#", "#", " ", "B">>
H3 == <<"#", "#", "#", " ", "C">>
ItemLine == <<"-", " ">> \o Rep("x", 9)
LinkLine == <<"[", "L", "]", "(", "u", ")", ":", " ", "d">>
WordLine == <<"a", "b", "c">>
LongLine == Rep("y", 60)
DocLines == {H1, H2A, H2B, H3, ItemLine, LinkLine, WordLine, LongLine, Blank}

Docs == UNION {[1..n -> DocLines] : n \in 1..MaxDocLines}
FileNames == {"llms.txt", "README.md"}

ChunkIdle(text, fileName) == [tool |-> "none", text |-> text, fileName |-> fileName]

ChunkTextCall ==
    /\ pc = "idle"
    /\ req' = [req EXCEPT !.tool = "chunkText"]
    /\ ret' = [kind |-> "chunks",
               chunks |-> chunkText(req.text, SmallMax, SmallMin),
               sections |-> chunkTextBySection(req.text, SmallMax, SmallMin)]
    /\ pc' = "return"
    /\ UNCHANGED <<env, kv, loc, calls, detached, queue, nreq, api, vec>>

ChunkStructuredCall ==
    /\ pc = "idle"
    /\ req' = [req EXCEPT !.tool = "chunkStructuredDocs"]
    /\ ret' = [kind |-> "chunks", chunks |-> chunkStructuredDocs(req.text),
               sections |-> <<>>]
    /\ pc' = "return"
    /\ UNCHANGED <<env, kv, loc, calls, detached, queue, nreq, api, vec>>

ChunkDocumentationCall ==
    /\ pc = "idle"
    /\ req' = [req EXCEPT !.tool = "chunkDocumentation"]
    /\ ret' = [kind |-> "chunks", chunks |-> chunkDocumentation(req.text, req.fileName),
               sections |-> <<>>]
    /\ pc' = "return"
    /\ UNCHANGED <<env, kv, loc, calls, detached, queue, nreq, api, vec>>

ChunkReply ==
    /\ pc = "return"
    /\ req.tool \in {"chunkText", "chunkStructuredDocs", "chunkDocumentation"}
    /\ req' = [req EXCEPT !.tool = "none"]
    /\ ret' = NoRet
    /\ pc' = "idle"
    /\ UNCHANGED <<env, kv, loc, calls, detached, queue, nreq, api, vec>>

InitChunk ==
    /\ env = [DOCS_BUCKET |-> TRUE]
    /\ kv = [k \in CacheKeys |-> NoEntry]
    /\ req \in {ChunkIdle(text, fileName) : text \in Docs, fileName \in FileNames}
    /\ pc = "idle"
    /\ loc = InitLoc
    /\ calls = <<>>
    /\ ret = NoRet
    /\ detached = {}
    /\ queue = 0
    /\ nreq = 0
    /\ api = ApiIdle
    /\ vec = {}

NextChunk ==
    \/ ChunkTextCall
    \/ ChunkStructuredCall
    \/ ChunkDocumentationCall
    \/ ChunkReply

SpecChunk == InitChunk /\ [][NextChunk]_vars

\* C18: of the chunks chunkText makes with maxChunkSize M and minChunkSize m,
\* each is at most M long unless one paragraph of it alone is longer than M,
\* and each but the last of its heading section is at least m long.
C18_ChunkSizeBounds ==
    (pc = "return" /\ req.tool = "chunkText") =>
      \A k \in DOMAIN ret.sections :
         \A j \in DOMAIN ret.sections[k] :
            LET chunk == ret.sections[k][j]
                paragraphs == Paragraphs(chunk, <<>>)
            IN /\ \/ StrLen(chunk) <= SmallMax
                  \/ \E p \in DOMAIN paragraphs : StrLen(paragraphs[p]) > SmallMax
               /\ j < Len(ret.sections[k]) => StrLen(chunk) >= SmallMin


\* The headings of level 3 or less above line i.
SectionHeadingsAbove(text, i) ==
    {k \in 1..(i - 1) : IsHeaderLine(text[k]) /\ Hashes(text[k]) <= 3}

NearestHeading(text, i) ==
    text[CHOOSE k \in SectionHeadingsAbove(text, i) :
            \A h \in SectionHeadingsAbove(text, i) : h <= k]

\* C20: in structured-entry chunking the chunk of every entry is the nearest
\* heading of level 3 or less above the entry, an empty line, and the entry;
\* an entry under '## Section' in a document titled '# Proj' is prefixed with
\* '## Section', not with the title.
C20_NearestHeadingPrefix ==
    (pc = "return" /\ req.tool = "chunkStructuredDocs") =>
      \A i \in DOMAIN req.text :
         LET entry == EntryContent(req.text, i, EntryEnd(req.text, i + 1))
             expected == <<TrimLine(NearestHeading(req.text, i)), Blank>> \o entry
         IN (/\ IsEntryStart(req.text[i])
             /\ SectionHeadingsAbove(req.text, i) # {}
             /\ StrLen(expected) > STRUCTURED_MIN)
            => \E c \in DOMAIN ret.chunks : ret.chunks[c] = expected


\* C19: every chunk chunkDocumentation returns, whichever of the three
\* strategies made it, is non-empty and longer than 50 characters.
C19_ChunksLongerThan50 ==
    (pc = "return" /\ req.tool = "chunkDocumentation") =>
      \A c \in DOMAIN ret.chunks : StrLen(ret.chunks[c]) > README_MIN


\* The lines of a text that hold something, trimmed, in order.
NonBlankLines(lines) ==
    LET kept == SelectSeq(lines, LAMBDA l : TrimLine(l) # Blank)
    IN [k \in 1..Len(kept) |-> TrimLine(kept[k])]

\* C30: chunkText loses no content: the non-empty paragraphs of the input,
\* line by line, are exactly what the returned chunks hold, each once and in
\* the order of the input.
C30_NoContentLost ==
    (pc = "return" /\ req.tool = "chunkText") =>
      NonBlankLines(Flatten(ret.chunks)) = NonBlankLines(req.text)


\* ------------------------------------------------ chunkReadme on its own
\* The lines README texts are made of: "# P", "## A", "### C", a code fence
\* line, a 62-character line "# yyy..." as a shell comment has it, a line of
\* README_MAX + 1 characters, a list item and the empty line.
LongComment == <<"#", " ">> \o Rep("y", 60)
HugeLine == [k \in 1..(README_MAX + 1) |-> "z"]
ReadmeLines == {H1, H2A, H3, Fence, LongComment, HugeLine, ItemLine, Blank}
ReadmeDocs == UNION {[1..n -> ReadmeLines] : n \in 1..MaxDocLines}

ChunkReadmeCall ==
    /\ pc = "idle"
    /\ req' = [req EXCEPT !.tool = "chunkReadme"]
    /\ ret' = [kind |-> "chunks", chunks |-> chunkReadme(req.text), sections |-> <<>>]
    /\ pc' = "return"
    /\ UNCHANGED <<env, kv, loc, calls, detached, queue, nreq, api, vec>>

ReadmeReply ==
    /\ pc = "return"
    /\ req.tool = "chunkReadme"
    /\ req' = [req EXCEPT !.tool = "none"]
    /\ ret' = NoRet
    /\ pc' = "idle"
    /\ UNCHANGED <<env, kv, loc, calls, detached, queue, nreq, api, vec>>

InitReadme ==
    /\ env = [DOCS_BUCKET |-> TRUE]
    /\ kv = [k \in CacheKeys |-> NoEntry]
    /\ req \in {ChunkIdle(text, "README.md") : text \in ReadmeDocs}
    /\ pc = "idle"
    /\ loc = InitLoc
    /\ calls = <<>>
    /\ ret = NoRet
    /\ detached = {}
    /\ queue = 0
    /\ nreq = 0
    /\ api = ApiIdle
    /\ vec = {}

NextReadme ==
    \/ ChunkReadmeCall
    \/ ReadmeReply

SpecReadme == InitReadme /\ [][NextReadme]_vars

ReadmeChunked == pc = "return" /\ req.tool = "chunkReadme" /\ isReadmeLike(req.text)

FenceCount(lines) == Cardinality({k \in DOMAIN lines : StartsFence(lines[k])})

\* Line k lies inside a code block: an odd number of fence lines is above it.
InsideFence(lines, k) == FenceCount(SubSeq(lines, 1, k - 1)) % 2 = 1

HeadingLines(lines) ==
    {k \in DOMAIN lines : IsHeaderLine(lines[k]) /\ ~InsideFence(lines, k)}

\* C21: README-aware chunking of a README-shaped document that opens with a
\* heading and whose headings are all of level 1 or 2 yields exactly one
\* chunk per heading section, in document order, each starting with its
\* heading and holding its code fences whole.
C21_OneChunkPerSection ==
    (/\ ReadmeChunked
     /\ IsHeaderLine(req.text[1])
     /\ FenceCount(req.text) % 2 = 0
     /\ \A k \in DOMAIN req.text :
           IsHeaderLine(req.text[k]) => Hashes(req.text[k]) <= 2 /\ ~InsideFence(req.text, k))
    => /\ Len(ret.chunks) = Cardinality(HeadingLines(req.text))
       /\ \A c \in DOMAIN ret.chunks :
             /\ \E k \in HeadingLines(req.text) :
                   /\ Cardinality({h \in HeadingLines(req.text) : h <= k}) = c
                   /\ ret.chunks[c][1] = TrimLine(req.text[k])
             /\ FenceCount(ret.chunks[c]) % 2 = 0

\* C24: in README-aware chunking a heading deeper than level 2 joins the
\* current chunk only while that chunk is at most 2000 characters long: no
\* chunk holds such a heading below more than 2000 characters.
C24_DeepHeadingSplitsLargeChunk ==
    ReadmeChunked =>
      \A c \in DOMAIN ret.chunks :
         \A k \in 2..Len(ret.chunks[c]) :
            (/\ IsHeaderLine(ret.chunks[c][k])
             /\ Hashes(ret.chunks[c][k]) > 2
             /\ ~InsideFence(ret.chunks[c], k))
            => StrLen(TrimText(SubSeq(ret.chunks[c], 1, k - 1))) <= README_MAX

\* C25: in README-aware chunking a fenced code block is whole inside one
\* chunk wherever it stands in the document: no line of it is taken for a
\* heading or a chunk boundary, so no chunk holds one fence line without the
\* other.
C25_FenceKeptWhole ==
    (ReadmeChunked /\ FenceCount(req.text) % 2 = 0) =>
      \A c \in DOMAIN ret.chunks : FenceCount(ret.chunks[c]) % 2 = 0


\* ------------------------------------------------------------ ViewCounterDO
\* The durable object that counts repository views.  Its fields are in loc
\* (counts, buffer, bufferTimer, initialized), its storage in kv, the
\* storage.put calls not yet settled in calls (oldest first), the request and
\* response being delivered in req and ret.  env tells whether the storage
\* offers setAlarm and what it held at construction.  A handler runs until
\* it awaits storage.put; requests, the timer and the alarm may run while a
\* put is awaited.  Three variables record the history: nreq[k] is the number
\* of POST requests received for k, queue the number of puts that failed, and
\* detached holds "overlap" once a handler started while a put was awaited.
RepoKeys == {"a", "b"}
MaxPosts == 3
MaxInFlight == 2
MaxPutFailures == 1
StoredCounts == {0, 5}
NoCounts == [k \in RepoKeys |-> 0]
NoCounterRequest == [method |-> "none", key |-> "none"]

isTestEnvironment == ~env.setAlarm

initialize(l) ==
    IF l.initialized THEN l ELSE [l EXCEPT !.counts = kv.counts, !.initialized = TRUE]

bufferIncrement(l, key) ==
    [l EXCEPT !.buffer[key] = @ + 1,
              !.bufferTimer = IF @ = "null" /\ ~isTestEnvironment THEN "armed" ELSE @]

totalCount(l, key) == l.counts[key] + l.buffer[key]

\* flushBuffer as far as its call of storage.put: the buffer is added to
\* counts, and counts is handed to storage.
ApplyBuffer(l) ==
    [l EXCEPT !.counts = [k \in RepoKeys |-> l.counts[k] + l.buffer[k]]]

PutCall(l, src, key, count) ==
    [src |-> src, key |-> key, count |-> count, counts |-> ApplyBuffer(l).counts,
     before |-> [k \in RepoKeys |-> totalCount(l, k)]]

Overlap == IF calls # <<>> THEN detached \cup {"overlap"} ELSE detached

PostsReceived == nreq["a"] + nreq["b"]

CounterPost(k) ==
    /\ pc = "idle"
    /\ PostsReceived < MaxPosts
    /\ isTestEnvironment => Len(calls) < MaxInFlight
    /\ LET l == bufferIncrement(initialize(loc), k)
           newCount == totalCount(l, k)
       IN IF isTestEnvironment
          THEN /\ loc' = ApplyBuffer(l)
               /\ calls' = Append(calls, PutCall(l, "POST", k, newCount))
               /\ UNCHANGED <<req, ret, pc>>
          ELSE /\ loc' = l
               /\ req' = [method |-> "POST", key |-> k]
               /\ ret' = [kind |-> "count", count |-> newCount]
               /\ pc' = "return"
               /\ UNCHANGED calls
    /\ nreq' = [nreq EXCEPT ![k] = @ + 1]
    /\ detached' = Overlap
    /\ UNCHANGED <<env, kv, queue, api, vec>>

CounterGet(k) ==
    /\ pc = "idle"
    /\ loc' = initialize(loc)
    /\ req' = [method |-> "GET", key |-> k]
    /\ ret' = [kind |-> "count", count |-> totalCount(loc', k)]
    /\ pc' = "return"
    /\ detached' = Overlap
    /\ UNCHANGED <<env, kv, calls, queue, nreq, api, vec>>

\* POST /<key>/flush
CounterFlush(k) ==
    /\ pc = "idle"
    /\ Len(calls) < MaxInFlight
    /\ LET l == initialize(loc)
       IN IF l.buffer = NoCounts
          THEN /\ loc' = l
               /\ req' = [method |-> "POST /flush", key |-> k]
               /\ ret' = [kind |-> "flushed"]
               /\ pc' = "return"
               /\ UNCHANGED calls
          ELSE /\ loc' = ApplyBuffer(l)
               /\ calls' = Append(calls, PutCall(l, "flush", k, 0))
               /\ UNCHANGED <<req, ret, pc>>
    /\ detached' = Overlap
    /\ UNCHANGED <<env, kv, queue, nreq, api, vec>>

\* A request without a key, or with another method.
CounterRejected(k, method) ==
    /\ pc = "idle"
    /\ loc' = initialize(loc)
    /\ req' = [method |-> method, key |-> k]
    /\ ret' = [kind |-> "status", count |-> IF k = "" THEN 400 ELSE 405]
    /\ pc' = "return"
    /\ detached' = Overlap
    /\ UNCHANGED <<env, kv, calls, queue, nreq, api, vec>>

\* The timeout set by bufferIncrement runs flushBuffer.
BufferTimerFires ==
    /\ pc = "idle"
    /\ loc.bufferTimer = "armed"
    /\ Len(calls) < MaxInFlight
    /\ LET l == [loc EXCEPT !.bufferTimer = "fired"]
       IN IF l.buffer = NoCounts
          THEN loc' = l /\ UNCHANGED calls
          ELSE loc' = ApplyBuffer(l) /\ calls' = Append(calls, PutCall(l, "timer", "none", 0))
    /\ detached' = Overlap
    /\ UNCHANGED <<env, kv, req, ret, pc, queue, nreq, api, vec>>

alarm ==
    /\ pc = "idle"
    /\ env.setAlarm
    /\ loc.buffer # NoCounts
    /\ Len(calls) < MaxInFlight
    /\ loc' = ApplyBuffer(loc)
    /\ calls' = Append(calls, PutCall(loc, "alarm", "none", 0))
    /\ detached' = Overlap
    /\ UNCHANGED <<env, kv, req, ret, pc, queue, nreq, api, vec>>

\* What the handler that awaited the put does with the request it serves.
AfterPut(h) ==
    IF h.src = "POST"
    THEN /\ req' = [method |-> "POST", key |-> h.key]
         /\ ret' = [kind |-> "count", count |-> h.count]
         /\ pc' = "return"
    ELSE IF h.src = "flush"
    THEN /\ req' = [method |-> "POST /flush", key |-> h.key]
         /\ ret' = [kind |-> "flushed"]
         /\ pc' = "return"
    ELSE UNCHANGED <<req, ret, pc>>

\* storage.put resolves: the rest of flushBuffer runs.
PutResolves ==
    /\ pc = "idle"
    /\ calls # <<>>
    /\ kv' = [kv EXCEPT !.counts = Head(calls).counts]
    /\ loc' = [loc EXCEPT !.buffer = NoCounts, !.bufferTimer = "null"]
    /\ calls' = Tail(calls)
    /\ AfterPut(Head(calls))
    /\ UNCHANGED <<env, detached, queue, nreq, api, vec>>

\* storage.put rejects: flushBuffer logs and returns.
PutRejects ==
    /\ pc = "idle"
    /\ calls # <<>>
    /\ queue < MaxPutFailures
    /\ queue' = queue + 1
    /\ calls' = Tail(calls)
    /\ AfterPut(Head(calls))
    /\ UNCHANGED <<env, kv, loc, detached, nreq, api, vec>>

CounterReply ==
    /\ pc = "return"
    /\ req' = NoCounterRequest
    /\ ret' = NoRet
    /\ pc' = "idle"
    /\ UNCHANGED <<env, kv, loc, calls, detached, queue, nreq, api, vec>>

InitCounter ==
    /\ env \in [setAlarm : BOOLEAN, initial : [RepoKeys -> StoredCounts]]
    /\ kv = [counts |-> env.initial]
    /\ req = NoCounterRequest
    /\ pc = "idle"
    /\ loc = [counts |-> NoCounts, buffer |-> NoCounts, bufferTimer |-> "null",
              initialized |-> FALSE]
    /\ calls = <<>>
    /\ ret = NoRet
    /\ detached = {}
    /\ queue = 0
    /\ nreq = NoCounts
    /\ api = ApiIdle
    /\ vec = {}

NextCounter ==
    \/ \E k \in RepoKeys : CounterPost(k)
    \/ \E k \in RepoKeys : CounterGet(k)
    \/ \E k \in RepoKeys : CounterFlush(k)
    \/ CounterRejected("", "GET")
    \/ \E k \in RepoKeys : CounterRejected(k, "DELETE")
    \/ BufferTimerFires
    \/ alarm
    \/ PutResolves
    \/ PutRejects
    \/ CounterReply

SpecCounter == InitCounter /\ [][NextCounter]_vars

Sequential == "overlap" \notin detached
TrueTotal(k) == env.initial[k] + nreq[k]

\* C22: for sequential POST and GET requests, a POST answers the previous
\* total plus one (1 for a key never seen) and that total is then in
\* storage, and a GET answers the current total (0 for an unknown key).
C22_SequentialCounts ==
    (pc = "return" /\ Sequential /\ ret.kind = "count") =>
        /\ ret.count = TrueTotal(req.key)
        /\ req.method = "POST" => kv.counts[req.key] = ret.count

\* C27: no view is lost when POST requests arrive while a flush awaits its
\* put: with no put failed, no put awaited and the buffer empty, storage
\* holds for each key its initial count plus the POSTs received for it.
C27_NoIncrementLost ==
    (queue = 0 /\ calls = <<>> /\ loc.buffer = NoCounts /\ loc.initialized) =>
        \A k \in RepoKeys : kv.counts[k] = TrueTotal(k)

\* C28: a flush whose put fails keeps the buffer and leaves the total a GET
\* reports for every key as it was before the flush; after a later
\* successful flush storage holds every buffered increment exactly once.
C28_FailedFlushKeepsTotals ==
    /\ [][(PutRejects /\ Sequential) =>
            /\ loc'.buffer = loc.buffer
            /\ \A k \in RepoKeys : totalCount(loc', k) = Head(calls).before[k]]_vars
    /\ [](( /\ queue > 0 /\ Sequential /\ calls = <<>>
            /\ loc.buffer = NoCounts /\ loc.initialized)
          => \A k \in RepoKeys : kv.counts[k] = TrueTotal(k))


\* ------------------------------------------------ enforceToolNameLengthLimit
\* Names are sequences of one-character strings.  A repository name is made
\* of words of the letter "a" joined by "-"; the empty name stands for a
\* missing repository.
LIMIT == 51
MaxWords == 3
WordLens == {1, 6, 12, 18}
Alnum == {"a", "r", "e", "p", "o", "d", "c", "s", "f", "t", "h", "u", "m", "n", "i"}
Chars(n, ch) == [k \in 1..n |-> ch]

FETCH_PREFIX == <<"f", "e", "t", "c", "h", "_">>
SEARCH_PREFIX == <<"s", "e", "a", "r", "c", "h", "_">>
DOCUMENTATION_SUFFIX ==
    <<"_", "d", "o", "c", "u", "m", "e", "n", "t", "a", "t", "i", "o", "n">>
DOCS_SUFFIX == <<"_", "d", "o", "c", "s">>

RECURSIVE JoinWords(_, _)
JoinWords(words, sep) ==
    IF words = <<>> THEN <<>>
    ELSE IF Len(words) = 1 THEN words[1]
    ELSE words[1] \o sep \o JoinWords(Tail(words), sep)

RepoNames ==
    {<<>>} \cup
    {JoinWords([k \in DOMAIN lens |-> Chars(lens[k], "a")], <<"-">>) :
        lens \in UNION {[1..m -> WordLens] : m \in 1..MaxWords}}

generateServerName(repo) ==
    IF repo # <<>> THEN repo \o <<" ", "D", "o", "c", "s">>
    ELSE <<"M", "C", "P", " ", "D", "o", "c", "s">>

\* repo.replace(/[^a-zA-Z0-9]/g, "_")
ReplaceNonAlnum(repo) == [k \in DOMAIN repo |-> IF repo[k] \in Alnum THEN repo[k] ELSE "_"]

\* repoName.split("_")
RECURSIVE SplitWords(_, _)
SplitWords(name, word) ==
    IF name = <<>> THEN <<word>>
    ELSE IF Head(name) = "_" THEN <<word>> \o SplitWords(Tail(name), <<>>)
    ELSE SplitWords(Tail(name), Append(word, Head(name)))

\* name.replace(/__/g, "_")
RECURSIVE ReplaceDoubleUnderscore(_)
ReplaceDoubleUnderscore(name) ==
    IF Len(name) < 2 THEN name
    ELSE IF name[1] = "_" /\ name[2] = "_"
    THEN <<"_">> \o ReplaceDoubleUnderscore(SubSeq(name, 3, Len(name)))
    ELSE <<name[1]>> \o ReplaceDoubleUnderscore(Tail(name))

\* The loop that drops words from the end, i = words.length - 1 down to 1;
\* <<>> when no shortened name fits.
RECURSIVE RemoveWords(_, _, _, _, _)
RemoveWords(words, i, prefix, shorterSuffix, serverNameLen) ==
    IF i < 1 THEN <<>>
    ELSE LET toolName == prefix \o JoinWords(SubSeq(words, 1, i), <<"_">>) \o shorterSuffix
         IN IF Len(toolName) + serverNameLen <= LIMIT
            THEN toolName
            ELSE RemoveWords(words, i - 1, prefix, shorterSuffix, serverNameLen)

enforceToolNameLengthLimit(prefix, repo, suffix) ==
    IF repo = <<>> THEN prefix \o suffix
    ELSE LET serverNameLen == Len(generateServerName(repo))
             repoName == ReplaceNonAlnum(repo)
             shorterSuffix == IF suffix = DOCUMENTATION_SUFFIX THEN DOCS_SUFFIX ELSE suffix
             words == SplitWords(repoName, <<>>)
             shortened == RemoveWords(words, Len(words) - 1, prefix, shorterSuffix,
                                      serverNameLen)
             result == prefix \o <<"r", "e", "p", "o">> \o shorterSuffix
         IN IF Len(prefix \o repoName \o suffix) + serverNameLen <= LIMIT
            THEN prefix \o repoName \o suffix
            ELSE IF Len(prefix \o repoName \o shorterSuffix) + serverNameLen <= LIMIT
            THEN prefix \o repoName \o shorterSuffix
            ELSE IF Len(words) > 1 /\ shortened # <<>>
            THEN shortened
            ELSE IF Len(result) + serverNameLen <= LIMIT
            THEN result
            ELSE ReplaceDoubleUnderscore(prefix \o shorterSuffix)

NameIdle(prefix, repo, suffix) ==
    [tool |-> "none", prefix |-> prefix, repo |-> repo, suffix |-> suffix]

EnforceCall ==
    /\ pc = "idle"
    /\ req' = [req EXCEPT !.tool = "enforceToolNameLengthLimit"]
    /\ ret' = [kind |-> "name",
               name |-> enforceToolNameLengthLimit(req.prefix, req.repo, req.suffix)]
    /\ pc' = "return"
    /\ UNCHANGED <<env, kv, loc, calls, detached, queue, nreq, api, vec>>

ServerNameCall ==
    /\ pc = "idle"
    /\ req' = [req EXCEPT !.tool = "generateServerName"]
    /\ ret' = [kind |-> "name", name |-> generateServerName(req.repo)]
    /\ pc' = "return"
    /\ UNCHANGED <<env, kv, loc, calls, detached, queue, nreq, api, vec>>

NameReply ==
    /\ pc = "return"
    /\ req' = [req EXCEPT !.tool = "none"]
    /\ ret' = NoRet
    /\ pc' = "idle"
    /\ UNCHANGED <<env, kv, loc, calls, detached, queue, nreq, api, vec>>

InitName ==
    /\ env = [DOCS_BUCKET |-> TRUE]
    /\ kv = [k \in CacheKeys |-> NoEntry]
    /\ req \in {NameIdle(prefix, repo, suffix) :
                   prefix \in {FETCH_PREFIX, SEARCH_PREFIX}, repo \in RepoNames,
                   suffix \in {DOCUMENTATION_SUFFIX, DOCS_SUFFIX}}
    /\ pc = "idle"
    /\ loc = InitLoc
    /\ calls = <<>>
    /\ ret = NoRet
    /\ detached = {}
    /\ queue = 0
    /\ nreq = 0
    /\ api = ApiIdle
    /\ vec = {}

NextName ==
    \/ EnforceCall
    \/ ServerNameCall
    \/ NameReply

SpecName == InitName /\ [][NextName]_vars

\* C23: for every repository name the tool name returned together with the
\* server name of the repository is at most LIMIT (51) characters long, and a
\* name that is within the limit already is returned as it is.
C23_ToolNameWithinLimit ==
    (pc = "return" /\ req.tool = "enforceToolNameLengthLimit") =>
        /\ Len(ret.name) + Len(generateServerName(req.repo)) <= LIMIT
        /\ (Len(req.prefix \o ReplaceNonAlnum(req.repo) \o req.suffix)
              + Len(generateServerName(req.repo)) <= LIMIT)
           => ret.name = req.prefix \o ReplaceNonAlnum(req.repo) \o req.suffix


\* ------------------------------------------- searchGitHubRepo, step by step
\* The two searches of fetchDocumentation (the file name llms.txt, then
\* README at the root) for one repository, each as the steps of
\* searchGitHubRepo: the cached path is read, the code search runs when there
\* is none, the file at the path is fetched, and the caller takes the result.
\* loc holds the caller's content, fileUsed and docsPath and the callee's
\* cachedPath, filePath and searched; detached holds the cacheFilePath tasks.
SearchFileNames == {"llms.txt", "README+path:/"}
SearchIdle == [tool |-> "none", owner |-> "o", repo |-> "r", urlType |-> "github"]

SearchLoc0 ==
    [content |-> NULL, fileUsed |-> "unknown", docsPath |-> "", docsBranch |-> "main",
     cachedPath |-> "", filePath |-> "", searched |-> FALSE]

\* What fetchDocumentation does with the result of the search.
SearchResult(l, filename, res) ==
    IF filename = "llms.txt" THEN AfterSearch(l, res) ELSE AfterReadmeSearch(l, res)

NotFound == [found |-> FALSE, content |-> NULL, path |-> ""]

SearchCall(filename) ==
    /\ pc = "idle"
    /\ \E readOk \in BOOLEAN :
         LET cachedFile == getFromCache(getRepoFilePathCacheKey(req.owner, req.repo), readOk)
             filePath == IF cachedFile.kind = "path" THEN cachedFile.path ELSE ""
         IN  /\ loc' = [SearchLoc0 EXCEPT !.cachedPath = filePath, !.filePath = filePath]
             /\ pc' = IF filePath = "" THEN "searchFileByName" ELSE "fetchFileFromGitHub"
    /\ req' = [req EXCEPT !.tool = filename]
    /\ UNCHANGED <<env, kv, calls, ret, detached, queue, nreq, api, vec>>

SearchByName ==
    /\ pc = "searchFileByName"
    /\ \E searchR \in SearchResponses :
         IF searchR = "ok-items"
         THEN /\ loc' = [loc EXCEPT !.filePath = SearchHit(req.tool), !.searched = TRUE]
              /\ pc' = "fetchFileFromGitHub"
              /\ UNCHANGED ret
         ELSE /\ loc' = SearchResult([loc EXCEPT !.searched = TRUE], req.tool, NotFound)
              /\ ret' = [kind |-> "file", found |-> FALSE]
              /\ pc' = "return"
    /\ UNCHANGED <<env, kv, req, calls, detached, queue, nreq, api, vec>>

SearchFetch ==
    /\ pc = "fetchFileFromGitHub"
    /\ \E rawR \in Responses :
         LET raw == fetchRawFile(req.owner, req.repo, loc.docsBranch, loc.filePath, rawR)
             content == IF raw = THROW THEN NULL ELSE raw
             res == IF Truthy(content)
                    THEN [found |-> TRUE, content |-> content, path |-> loc.filePath]
                    ELSE NotFound
         IN  /\ loc' = SearchResult(loc, req.tool, res)
             /\ ret' = [kind |-> "file", found |-> res.found]
             /\ detached' =
                  IF res.found
                  THEN detached \cup
                       {[task |-> "cacheFilePath",
                         key |-> getRepoFilePathCacheKey(req.owner, req.repo),
                         value |-> [kind |-> "path", path |-> loc.filePath,
                                    branch |-> loc.docsBranch]]}
                  ELSE detached
    /\ pc' = "return"
    /\ UNCHANGED <<env, kv, req, calls, queue, nreq, api, vec>>

SearchReply ==
    /\ pc = "return"
    /\ req' = SearchIdle
    /\ ret' = NoRet
    /\ loc' = SearchLoc0
    /\ pc' = "idle"
    /\ UNCHANGED <<env, kv, calls, detached, queue, nreq, api, vec>>

InitSearch ==
    /\ env = [DOCS_BUCKET |-> TRUE]
    /\ kv = [k \in CacheKeys |-> NoEntry]
    /\ req = SearchIdle
    /\ pc = "idle"
    /\ loc = SearchLoc0
    /\ calls = <<>>
    /\ ret = NoRet
    /\ detached = {}
    /\ queue = 0
    /\ nreq = 0
    /\ api = ApiIdle
    /\ vec = {}

NextSearch ==
    \/ \E filename \in SearchFileNames : SearchCall(filename)
    \/ SearchByName
    \/ SearchFetch
    \/ SearchReply
    \/ CacheWrite
    \/ Expire

SpecSearch == InitSearch /\ [][NextSearch]_vars

\* C26: whenever the llms.txt search makes fetchDocumentation report the
\* file llms.txt, the content comes from a file named llms.txt, whatever
\* path an earlier README search cached; and a cached path whose fetch
\* fails is followed by a fresh search.
C26_LlmsSearchUsesLlmsFile ==
    (pc = "return" /\ req.tool = "llms.txt") =>
        /\ loc.fileUsed = "llms.txt" =>
              /\ Basename(loc.docsPath) = "llms.txt"
              /\ loc.content = FileText(req.owner, req.repo, SearchHit("llms.txt"))
        /\ (loc.cachedPath # "" /\ ~Truthy(loc.content)) => loc.searched


\* ------------------------------------------ githubApiRequest: the token
\* Lines 155-157: the request of the attempt carries the Authorization header
\* when useAuth is set and the environment holds a token.
Authorization(a) == a.useAuth /\ env.GITHUB_TOKEN

\* C29: a request made through githubApiRequest with useAuth = false, as
\* fetchRawFile makes it, carries no Authorization token, on the first
\* attempt and on every retry: while the call runs, an attempt without the
\* token is never followed by one with it.
C29_NoTokenWithoutAuth ==
    [][(api.pc # "idle" /\ ~api.useAuth) => ~Authorization(api')]_vars


=============================================================================
